---- MODULE Spec2Model ----
(***************************************************************************)
(* Retention prediction pipeline of thai-talent-wow.                       *)
(*                                                                         *)
(*   predictive_retention/feature_engineering.py                           *)
(*       feature_engineering()   the monthly employee panel and its label  *)
(*       calculate_z_score()     cohort standardisation                    *)
(*   predictive_retention/model.py                                         *)
(*       train_model()           the walk-forward split                    *)
(*       find_optimal_threshold() the decision-threshold scan              *)
(*       predict_result()        scoring of the latest snapshot            *)
(*       save_model(), save_model_result()  the persisted files            *)
(*   predictive_retention/termination_analysis.py                          *)
(*       generate_termination_analysis()  the report                       *)
(*   predictive_retention/main.py                                          *)
(*       main()                  one run of the pipeline                   *)
(*                                                                         *)
(* Dates are day numbers of a calendar whose months all have DaysPerMonth  *)
(* days: day d lies in month d \div DaysPerMonth, the first day of month m *)
(* is m * DaysPerMonth and its month-end is the last day of the month.     *)
(* Every date the code builds by month arithmetic starts from the first   *)
(* day of a month, so the differing lengths of real months play no part.  *)
(***************************************************************************)
EXTENDS Integers, Sequences, FiniteSets, TLC

VARIABLES
    pc,                     \* position of the pipeline run (main)
    emp_df,                 \* employees.csv: rows [id, hire_date]
    emp_movement_df,        \* employeeMovement.csv: rows [employee_id, movement_type, effective_date]
    today,                  \* pd.to_datetime('today'), as a date
    final_df,               \* the panel returned by feature_engineering()
    train_execution_dates,  \* train_model: dates of the training rows
    test_execution_dates,   \* train_model: dates of the testing rows
    train_df,               \* train_model: training rows
    test_df,                \* train_model: testing rows
    model_config,           \* train_model: training_period / testing_period
    z_pc,                   \* position of a calculate_z_score call
    z_df,                   \* calculate_z_score: rows [group, value] of dataframe
    z_out,                  \* calculate_z_score: the returned list
    thr_pc,                 \* position of a find_optimal_threshold call
    y_prob,                 \* find_optimal_threshold: model.predict(X_test), in thousandths
    y_test,                 \* find_optimal_threshold: the labels
    recall_threshold,       \* find_optimal_threshold: the recall floor <<num, den>>
    optimal_threshold,      \* find_optimal_threshold: returned threshold, in thousandths
    best_metrics,           \* find_optimal_threshold: returned metrics
    best_model,             \* finetune_model: the returned model
    pred_pc,                \* position of a predict_result call
    pred_df,                \* predict_result: rows of feature_engineered_df
    pred_columns,           \* predict_result: the feature columns the frame has
    loaded_config,          \* predict_result: model_config read by load_model()
    explainer_fails,        \* predict_result: emp_ids on whose row the explainer raises
    pred_error,             \* predict_result: the exception that left it, "" for none
    result_df,              \* predict_result: the returned result_df
    model_interpretation,   \* predict_result: the returned dict emp_id -> SHAP values
    ta_pc,                  \* position of a generate_termination_analysis call
    ta_features,            \* generate_termination_analysis: model_config['features']
    ta_interpretation,      \* generate_termination_analysis: model_interpretation
    ta_result,              \* generate_termination_analysis: model_result
    ta_metadata,            \* generate_termination_analysis: employee_metadata
    genai_response,         \* generate_termination_analysis: what generate_content did
    ta_error,               \* generate_termination_analysis: the exception that left it
    json_result,            \* generate_termination_analysis: the returned report
    runs,                   \* main: how many runs of the pipeline have started
    raised,                 \* main: the stage whose exception main re-raised, "" for none
    written,                \* main: names of the files this run has written
    prediction_df,          \* main: the prediction table returned by predict_result
    feature_engineered_csv, \* file output/feature_engineered_data.csv
    model_pkl,              \* file MODEL_OUTPUT_DIR/model.pkl
    model_config_json,      \* file MODEL_OUTPUT_DIR/model_config.json
    model_result_parquet,   \* file MODEL_OUTPUT_DIR/model_result.parquet
    model_interpretation_pkl, \* file MODEL_OUTPUT_DIR/model_interpretation.pkl
    termination_result_json, \* file output/termination_result.json
    retention_jobs,         \* retention_api: the dict job_id -> job record
    thread_pc,              \* retention_api: position of the background thread of a job
    returncode,             \* retention_api: process.returncode of a job's subprocess
    failed_stage,           \* retention_api: the step at which a job's main.py failed
    redis_jobs,             \* Redis: the hashes job:{id}, <<status>> or <<>>
    job_queue,              \* Redis: the list job_queue, left end first
    cancel_pc,              \* api: position of a cancel_job request for a job
    worker_module,          \* worker: the module the worker process runs
    worker_pc,              \* worker: position in the loop of run
    worker_job_id           \* worker: the local job_id, 0 while unbound

fe_vars == <<pc, emp_df, emp_movement_df, today, final_df, train_execution_dates,
             test_execution_dates, train_df, test_df, model_config>>

z_vars == <<z_pc, z_df, z_out>>

thr_vars == <<thr_pc, y_prob, y_test, recall_threshold, optimal_threshold, best_metrics,
              best_model>>

pred_vars == <<pred_pc, pred_df, pred_columns, loaded_config, explainer_fails, pred_error,
               result_df, model_interpretation>>

ta_vars == <<ta_pc, ta_features, ta_interpretation, ta_result, ta_metadata, genai_response,
             ta_error, json_result>>

file_vars == <<feature_engineered_csv, model_pkl, model_config_json, model_result_parquet,
               model_interpretation_pkl, termination_result_json>>

main_vars == <<runs, raised, written, prediction_df, file_vars>>

api_vars == <<retention_jobs, thread_pc, returncode, failed_stage>>

redis_vars == <<redis_jobs, job_queue, cancel_pc, worker_module, worker_pc,
                worker_job_id>>

svc_vars == <<api_vars, redis_vars>>

vars == <<fe_vars, z_vars, thr_vars, pred_vars, ta_vars, main_vars, svc_vars>>

-----------------------------------------------------------------------------
(* Bounds of the model *)

NumMonths == 10
DaysPerMonth == 3
MaxMoves == 2
MaxRuns == 2
NumTasks == 2
NumJobs == 2

NumDays == NumMonths * DaysPerMonth

-----------------------------------------------------------------------------
(* Calendar *)

MonthOf(d) == d \div DaysPerMonth

\* Timestamp.replace(day=1)
ReplaceDay1(d) == MonthOf(d) * DaysPerMonth

\* the 'ME' anchor of month m
MonthEnd(m) == m * DaysPerMonth + (DaysPerMonth - 1)

\* d + pd.DateOffset(months=k), for d the first day of a month
AddMonths(d, k) == d + k * DaysPerMonth

\* d - pd.DateOffset(days=k)
SubDays(d, k) == d - k

MonthsPerYear == 12

\* relativedelta(a, b).months for a >= b, b the first day of a month: the months
\* component alone, whole years being carried into .years
RelativeDeltaMonths(a, b) == (MonthOf(a) - MonthOf(b)) % MonthsPerYear

\* execution_date.strftime('%Y-%m-%d'): the year-and-month part and the day of
\* the month, compared as text from the left
Strftime(d) == <<MonthOf(d), (d % DaysPerMonth) + 1>>

StrLess(a, b) == a[1] < b[1] \/ (a[1] = b[1] /\ a[2] < b[2])

\* pd.date_range(start, end, freq='ME'): every month-end in [start, end], ascending
DateRange(start, end) ==
    LET lo == IF start <= MonthEnd(MonthOf(start)) THEN MonthOf(start) ELSE MonthOf(start) + 1
        hi == IF MonthEnd(MonthOf(end)) <= end THEN MonthOf(end) ELSE MonthOf(end) - 1
    IN  IF hi < lo THEN <<>> ELSE [i \in 1..(hi - lo + 1) |-> MonthEnd(lo + i - 1)]

-----------------------------------------------------------------------------
(* Sequence helpers standing for the pandas frame operations *)

Min2(a, b) == IF a < b THEN a ELSE b
Max2(a, b) == IF a > b THEN a ELSE b

MinOfSet(S) == CHOOSE x \in S : \A y \in S : x <= y

RECURSIVE SortedSeq(_)
\* sorted(...) of a set of dates
SortedSeq(S) == IF S = {} THEN <<>> ELSE <<MinOfSet(S)>> \o SortedSeq(S \ {MinOfSet(S)})

RECURSIVE Flatten(_)
\* pd.concat of a sequence of frames
Flatten(ss) == IF ss = <<>> THEN <<>> ELSE Head(ss) \o Flatten(Tail(ss))

\* the rows of s at the positions keep, in their order
RowsAt(s, keep) == Flatten([i \in 1..Len(s) |-> IF i \in keep THEN <<s[i]>> ELSE <<>>])

\* DataFrame.drop_duplicates(subset=..., keep='last'), key[i] being the subset
\* columns of row i
DropDuplicatesLast(s, key) ==
    RowsAt(s, {i \in 1..Len(s) : \A j \in (i + 1)..Len(s) : key[j] # key[i]})

\* a Python slice s[start:stop] with the negative indices Python allows
PyIndex(i, n) == IF i < 0 THEN Max2(n + i, 0) ELSE Min2(i, n)
PySlice(s, start, stop) == SubSeq(s, PyIndex(start, Len(s)) + 1, PyIndex(stop, Len(s)))

Range(s) == {s[i] : i \in 1..Len(s)}

-----------------------------------------------------------------------------
(* feature_engineering(): the employees of one execution date *)

\* a missing value (NaT, None, NaN): no date and no month count is negative
NaN == -1

\* movement_type 1 == voluntary termination, 2 == involuntary termination
TerminationTypes == {1, 2}

\* emp_df[emp_df['hire_date'] <= execution_date].drop_duplicates(subset=['emp_id'], keep='last')
HiredBy(emps, execution_date) ==
    LET hired == SelectSeq(emps, LAMBDA r : r.hire_date <= execution_date)
    IN  DropDuplicatesLast(hired, [i \in 1..Len(hired) |-> hired[i].id])

\* emp_movement_df[emp_movement_df['effective_date'] <= execution_date]
ExecutionMovementDf(movs, execution_date) ==
    SelectSeq(movs, LAMBDA r : r.effective_date <= execution_date)

\* as LeftCompany, with the involuntary terminations forgotten
LeftCompanyVoluntaryOnly(movs, execution_date) ==
    {r.employee_id : r \in {x \in Range(ExecutionMovementDf(movs, execution_date)) :
                               x.movement_type = 1}}

\* the employee_id column of the termination rows of execution_movement_df
LeftCompany(movs, execution_date) ==
    {r.employee_id : r \in {x \in Range(ExecutionMovementDf(movs, execution_date)) :
                               x.movement_type \in TerminationTypes}}

\* execution_emp_df after "filter out employee who has left the company"
ExecutionEmpDf(emps, movs, execution_date) ==
    SelectSeq(HiredBy(emps, execution_date),
              LAMBDA r : r.id \notin LeftCompany(movs, execution_date))

-----------------------------------------------------------------------------
(* feature_engineering(): the label *)

next_n_months == 3

\* TIME_WINDOW_START = pd.to_datetime(execution_date).replace(day=1)
TimeWindowStart(execution_date) == ReplaceDay1(execution_date)

\* TIME_WINDOW_END = TIME_WINDOW_START + DateOffset(months=next_n_months) - DateOffset(days=1)
TimeWindowEnd(execution_date) ==
    SubDays(AddMonths(TimeWindowStart(execution_date), next_n_months), 1)

\* _termination_df: the termination movements with
\* TIME_WINDOW_START <= effective_date < TIME_WINDOW_END
TerminationDf(movs, execution_date) ==
    SelectSeq(movs, LAMBDA r :
        /\ r.movement_type \in TerminationTypes
        /\ r.effective_date >= TimeWindowStart(execution_date)
        /\ r.effective_date < TimeWindowEnd(execution_date))

\* the positions of s, ascending, that are in the set keep
PositionsIn(s, keep) == RowsAt([i \in 1..Len(s) |-> i], keep)

\* left.merge(right, how='left') on key columns lkey = rkey: the pairs <<i, j>> of
\* joined rows, the rows of left in order, each with its matches of right in
\* right's order, or with j = 0 (missing right columns) when it has none
LeftMerge(lkey, rkey) ==
    Flatten([i \in 1..Len(lkey) |->
        LET m == PositionsIn(rkey, {j \in 1..Len(rkey) : rkey[j] = lkey[i]})
        IN  IF m = <<>> THEN <<(<<i, 0>>)>>
            ELSE [k \in 1..Len(m) |-> <<i, m[k]>>]])

\* month_diff = relativedelta(effective_date, TIME_WINDOW_START).months, None when
\* the employee has no termination row
MonthDiff(effective_date, execution_date) ==
    IF effective_date = NaN THEN NaN
    ELSE RelativeDeltaMonths(effective_date, TimeWindowStart(execution_date))

LabelDenominator == 3

\* termination_value = ((3 - month_diff) / 3).fillna(0), held as its numerator
\* over LabelDenominator
TerminationValue(month_diff) ==
    IF month_diff = NaN THEN 0 ELSE LabelDenominator - month_diff

\* termination_target[['emp_id', 'termination_value']]
TerminationTarget(emps, movs, execution_date) ==
    LET left == ExecutionEmpDf(emps, movs, execution_date)
        right == TerminationDf(movs, execution_date)
        merged == LeftMerge([i \in 1..Len(left) |-> left[i].id],
                            [j \in 1..Len(right) |-> right[j].employee_id])
    IN  [n \in 1..Len(merged) |->
            LET effective_date == IF merged[n][2] = 0 THEN NaN
                                  ELSE right[merged[n][2]].effective_date
            IN  [emp_id |-> left[merged[n][1]].id,
                 termination_value |->
                     TerminationValue(MonthDiff(effective_date, execution_date))]]

\* combined_df: the feature frames (one row per employee of execution_emp_df)
\* with execution_date, merged with termination_target on emp_id
CombinedDf(emps, movs, execution_date) ==
    LET left == ExecutionEmpDf(emps, movs, execution_date)
        right == TerminationTarget(emps, movs, execution_date)
        merged == LeftMerge([i \in 1..Len(left) |-> left[i].id],
                            [j \in 1..Len(right) |-> right[j].emp_id])
    IN  [n \in 1..Len(merged) |->
            [emp_id |-> left[merged[n][1]].id,
             execution_date |-> execution_date,
             termination_value |-> IF merged[n][2] = 0 THEN NaN
                                   ELSE right[merged[n][2]].termination_value]]

-----------------------------------------------------------------------------
(* feature_engineering(): the date grid and the panel *)

\* first_month = emp_df['hire_date'].min()
FirstMonth(emps) == MinOfSet({emps[i].hire_date : i \in 1..Len(emps)})

\* date_range[1:]
ExecutionDates(emps, current_month) ==
    LET date_range == DateRange(FirstMonth(emps), current_month)
    IN  PySlice(date_range, 1, Len(date_range))

\* final_df after the loop: pd.concat of every execution date's combined_df
ConcatPanel(emps, movs, current_month) ==
    LET dates == ExecutionDates(emps, current_month)
    IN  Flatten([i \in 1..Len(dates) |-> CombinedDf(emps, movs, dates[i])])

PanelKey(row) == <<row.emp_id, row.execution_date>>

\* as FinalPanel, without the final drop_duplicates
FinalPanelNoDedup(emps, movs, current_month) == ConcatPanel(emps, movs, current_month)

\* final_df.drop_duplicates(subset=['emp_id', 'execution_date'], keep='last')
FinalPanel(emps, movs, current_month) ==
    LET concat == ConcatPanel(emps, movs, current_month)
    IN  DropDuplicatesLast(concat, [i \in 1..Len(concat) |-> PanelKey(concat[i])])

-----------------------------------------------------------------------------
(* train_model(): the walk-forward split *)

\* sorted(feature_engineered_df['execution_date'].unique().tolist())
AvailableExecutionDates(df) == SortedSeq({df[i].execution_date : i \in 1..Len(df)})

\* as TrainExecutionDates, holding back three months only: [:-3]
TrainExecutionDatesLate(df) == PySlice(AvailableExecutionDates(df), 0, -3)

\* as TrainExecutionDates, holding back four months: [:-4]
TrainExecutionDatesFour(df) == PySlice(AvailableExecutionDates(df), 0, -4)

\* as TrainExecutionDates, holding back five months: [:-5]
TrainExecutionDatesFive(df) == PySlice(AvailableExecutionDates(df), 0, -5)

\* available_execution_dates[:-7]
TrainExecutionDates(df) == PySlice(AvailableExecutionDates(df), 0, -7)

\* available_execution_dates[-4:-3]
TestExecutionDates(df) == PySlice(AvailableExecutionDates(df), -4, -3)

\* feature_engineered_df.query('execution_date.isin(@dates)')
QueryIsin(df, dates) == SelectSeq(df, LAMBDA r : r.execution_date \in Range(dates))

\* finetune_hyperparameter: int(0.8 * len(X_train)); prepare_data keeps the
\* rows of train_df in their order
TuneCut(rows) == (8 * Len(rows)) \div 10

\* a split that takes every second row for validation
TuneTrainAlternating(rows) == RowsAt(rows, {i \in 1..Len(rows) : i % 2 = 1})

\* X_train.iloc[:int(0.8 * len(X_train))]
TuneTrain(rows) == PySlice(rows, 0, TuneCut(rows))

\* X_train.iloc[int(0.8 * len(X_train)):]
TuneVal(rows) == PySlice(rows, TuneCut(rows), Len(rows))

\* [execution_date.strftime('%Y-%m-%d') for execution_date in dates]
Period(dates) == [i \in 1..Len(dates) |-> Strftime(dates[i])]

-----------------------------------------------------------------------------
(* calculate_z_score(): binary floating point *)

(* The value column is float64.  The model keeps the arithmetic of a binary   *)
(* floating-point format, round-to-nearest-even, with MantBits bits of        *)
(* precision instead of 53: a float is an integer count of the unit, the      *)
(* floats of [2^(MantBits-1), 2^MantBits) are spaced 1 apart, those of the    *)
(* next binade 2 apart, and so on.                                            *)

MantBits == 3
MaxRows == 3

RECURSIVE Pow2(_)
Pow2(k) == IF k <= 0 THEN 1 ELSE 2 * Pow2(k - 1)

RECURSIVE Ulp(_, _, _)
\* the spacing of the floats around the positive rational a / b, from q upwards
Ulp(a, b, q) == IF a < Pow2(MantBits) * q * b THEN q ELSE Ulp(a, b, 2 * q)

\* the float nearest to the non-negative rational a / b, ties to the even mantissa
FlRound(a, b) ==
    LET q == Ulp(a, b, 1)
        f == a \div (b * q)
        r == a - f * b * q
    IN  IF 2 * r < b * q THEN f * q
        ELSE IF 2 * r > b * q THEN (f + 1) * q
        ELSE IF f % 2 = 0 THEN f * q ELSE (f + 1) * q

RECURSIVE FlSum(_)
\* x.sum(): the values added from the left, each partial sum rounded
FlSum(values) ==
    IF values = <<>> THEN 0
    ELSE FlRound(FlSum(SubSeq(values, 1, Len(values) - 1)) + values[Len(values)], 1)

\* x.mean(): the rounded sum divided by the count, rounded
FlMean(values) == FlRound(FlSum(values), Len(values))

\* x - x.mean() for one value: the sign and the rounded magnitude
FlSub(x, y) == IF x >= y THEN FlRound(x - y, 1) ELSE 0 - FlRound(y - x, 1)

RECURSIVE SumSquares(_, _)
\* ((avg - values) ** 2).sum(): zero exactly when every deviation is zero
SumSquares(values, avg) ==
    IF values = <<>> THEN 0
    ELSE FlSub(Head(values), avg) * FlSub(Head(values), avg) + SumSquares(Tail(values), avg)

Sign(x) == IF x > 0 THEN 1 ELSE IF x < 0 THEN 0 - 1 ELSE 0

\* a z-score: NaN, or its sign and its square as a fraction <<num, den>> (the
\* square root and the last division round, but keep zero and non-zero apart)
NaNScore == [nan |-> TRUE, sign |-> 0, sq |-> <<0, 1>>]
ZeroScore == [nan |-> FALSE, sign |-> 0, sq |-> <<0, 1>>]

\* lambda x: (x - x.mean()) / x.std(), for member k of the group with these
\* values.  x.std() (ddof=1) is NaN for a single value; 0 / 0 is NaN.
Standardize(values, k) ==
    LET avg == FlMean(values)
        d == FlSub(values[k], avg)
        ss == SumSquares(values, avg)
    IN  IF Len(values) <= 1 THEN NaNScore
        ELSE IF ss = 0 THEN NaNScore
        ELSE [nan |-> FALSE, sign |-> Sign(d), sq |-> <<d * d * (Len(values) - 1), ss>>]

\* .fillna(0)
Fillna0(z) == IF z.nan THEN ZeroScore ELSE z

\* dataframe.groupby(group_column)[value_column].transform(...).fillna(0).tolist():
\* rows whose group key is missing are left out of every group and come back NaN
CalculateZScore(df) ==
    [i \in 1..Len(df) |->
        Fillna0(IF df[i].group = NaN THEN NaNScore
                ELSE LET members == PositionsIn(df, {j \in 1..Len(df) : df[j].group = df[i].group})
                         values == [n \in 1..Len(members) |-> df[members[n]].value]
                         k == CHOOSE n \in 1..Len(members) : members[n] = i
                     IN  Standardize(values, k))]

\* the floats of one binade: MantBits-bit mantissas, spaced 2 apart
FloatValues == {v \in Pow2(MantBits)..(Pow2(MantBits + 1) - 1) : v % 2 = 0}

Groups == {1, 2}

ZRows == [group : Groups \cup {NaN}, value : FloatValues]

-----------------------------------------------------------------------------
(* find_optimal_threshold(): metrics *)

(* Scores and thresholds are counted in thousandths; a metric is a fraction  *)
(* <<num, den>> with den > 0, compared exactly.                              *)

RatLess(a, b) == a[1] * b[2] < b[1] * a[2]
RatLeq(a, b) == a[1] * b[2] <= b[1] * a[2]

\* a / b with sklearn's zero_division handling: 0.0 when the denominator is 0
Ratio(a, b) == IF b = 0 THEN <<0, 1>> ELSE <<a, b>>

\* the number of samples i with pred[i] = p and truth[i] = t
Count(pred, truth, p, t) ==
    Cardinality({i \in 1..Len(pred) : pred[i] = p /\ truth[i] = t})

\* np.average of the per-label scores
RatMean(fs) ==
    IF Len(fs) = 1 THEN fs[1]
    ELSE <<fs[1][1] * fs[2][2] + fs[2][1] * fs[1][2], 2 * fs[1][2] * fs[2][2]>>

\* get_evaluation_metrics(y_true, y_pred): f1, recall and precision of the
\* positive label; macro_f1 the mean of the F1 of each label present in y_true
\* or y_pred
GetEvaluationMetrics(truth, pred) ==
    LET tp == Count(pred, truth, TRUE, TRUE)
        fp == Count(pred, truth, TRUE, FALSE)
        fn == Count(pred, truth, FALSE, TRUE)
        tn == Count(pred, truth, FALSE, FALSE)
        f1_pos == Ratio(2 * tp, 2 * tp + fp + fn)
        f1_neg == Ratio(2 * tn, 2 * tn + fn + fp)
        labels == (IF tn + fp + fn > 0 THEN <<f1_neg>> ELSE <<>>)
                  \o (IF tp + fp + fn > 0 THEN <<f1_pos>> ELSE <<>>)
    IN  [f1 |-> f1_pos,
         recall |-> Ratio(tp, tp + fn),
         precision |-> Ratio(tp, tp + fp),
         macro_f1 |-> RatMean(labels)]

-----------------------------------------------------------------------------
(* find_optimal_threshold(): the scan *)

\* np.arange(0.001, 0.5, 0.001), in thousandths
GridStart == 1
GridStop == 500
GridStep == 1

\* len(np.arange(start, stop, step)) = ceil((stop - start) / step)
GridLen == (GridStop - GridStart + GridStep - 1) \div GridStep

GridAt(k) == GridStart + (k - 1) * GridStep

\* y_true = y_test != 0
YTrue(labels) == [i \in 1..Len(labels) |-> labels[i] # 0]

\* y_pred = y_prob > threshold
YPred(prob, threshold) == [i \in 1..Len(prob) |-> prob[i] > threshold]

MetricsAt(prob, labels, threshold) ==
    GetEvaluationMetrics(YTrue(labels), YPred(prob, threshold))

\* best_score_metric = -np.inf
NegInf == <<0 - 1, 1>>

\* as Improves, with >= for >
ImprovesOrTies(metrics, best_score_metric, floor) ==
    /\ RatLeq(best_score_metric, metrics.macro_f1)
    /\ RatLeq(floor, metrics.recall)

\* metrics[score_metric] > best_score_metric and metrics['recall'] >= recall_threshold
Improves(metrics, best_score_metric, floor) ==
    /\ RatLess(best_score_metric, metrics.macro_f1)
    /\ RatLeq(floor, metrics.recall)

\* one pass of the loop body for the k-th threshold of the grid
ScanStep(acc, prob, labels, floor, k) ==
    LET metrics == MetricsAt(prob, labels, GridAt(k))
    IN  IF Improves(metrics, acc.best_score_metric, floor)
        THEN [best_score_metric |-> metrics.macro_f1,
              best_metrics |-> <<metrics>>,
              optimal_threshold |-> GridAt(k)]
        ELSE acc

RECURSIVE ScanRange(_, _, _, _, _, _)
\* the loop over the thresholds lo..hi of the grid, in ascending order: the
\* first half runs to completion (optimal_threshold is never negative, the
\* test only makes the first half's result a value), then the second half
\* continues from it
ScanRange(acc, prob, labels, floor, lo, hi) ==
    IF lo > hi THEN acc
    ELSE IF lo = hi THEN ScanStep(acc, prob, labels, floor, lo)
    ELSE LET mid == (lo + hi) \div 2
             half == ScanRange(acc, prob, labels, floor, lo, mid)
         IN  IF half.optimal_threshold >= 0
             THEN ScanRange(half, prob, labels, floor, mid + 1, hi)
             ELSE half

\* find_optimal_threshold: (optimal_threshold, best_metrics); best_metrics is
\* <<>> for None and <<metrics>> otherwise
FindOptimalThreshold(prob, labels, floor) ==
    ScanRange([best_score_metric |-> NegInf, best_metrics |-> <<>>, optimal_threshold |-> 0],
              prob, labels, floor, 1, GridLen)

NumSamples == 2
NumScoreLevels == 2

\* the scores the model predicts, in thousandths: evenly spread inside the grid
Scores == {k * (GridStop \div (NumScoreLevels + 1)) : k \in 1..NumScoreLevels}

\* termination_value of a test row: 0, or a non-zero label
TestLabels == {0, 1}

RecallFloors == {<<0, 1>>, <<1, 2>>, <<3, 4>>, <<1, 1>>}

-----------------------------------------------------------------------------
(* predict_result() *)

(* Probabilities are counted in thousandths, like the thresholds.  A row of  *)
(* the frame is [emp_id, execution_date, values], values giving one number   *)
(* per feature column; pred_columns says which feature columns the frame has.*)

NumPredRows == 2

FeatureColumns == {"avg_salary", "num_skills", "total_working_year"}

FeatureValues == {0, 1}

ProbOne == 1000

\* the fitted regressor, a function of the feature values it is given only:
\* its output falls below 0, inside [0, 1] and above 1
ModelBias == 0 - 200
ModelWeight == 900

RECURSIVE SumSeq(_)
SumSeq(xs) == IF xs = <<>> THEN 0 ELSE Head(xs) + SumSeq(Tail(xs))

\* model.predict(X) for one row X
ModelPredict(x) == ModelBias + ModelWeight * SumSeq(x)

\* explainer(X)[0].values for one row X: one contribution per feature
ShapValues(x) == [i \in 1..Len(x) |-> ModelWeight * x[i]]

\* feature_engineered_df['execution_date'].max()
PredictedExecutionDate(df) ==
    CHOOSE d \in {r.execution_date : r \in Range(df)} :
        \A r \in Range(df) : r.execution_date <= d

\* feature_engineered_df.query('execution_date == @predicted_execution_date')
LatestSnapshot(df) ==
    SelectSeq(df, LAMBDA r : r.execution_date = PredictedExecutionDate(df))

\* df[features] raises KeyError when a listed column is not in the frame
MissingColumns(columns, features) == {features[i] : i \in 1..Len(features)} \ columns

\* df[features] for one row: the listed columns, in the listed order
SelectFeatures(r, features) == [i \in 1..Len(features) |-> r.values[features[i]]]

\* np.clip(y_prob, 0, 1) without its upper bound
ClipBelow(v, lo, hi) == IF v < lo THEN lo ELSE v

\* np.clip(y_prob, 0, 1)
Clip(v, lo, hi) == IF v < lo THEN lo ELSE IF v > hi THEN hi ELSE v

\* the row of result_df for one row of the snapshot
ResultRow(r, config) ==
    LET prob == Clip(ModelPredict(SelectFeatures(r, config.features)), 0, ProbOne)
    IN  [emp_id |-> r.emp_id,
         termination_probability |-> prob,
         predicted_termination |-> prob > config.optimal_threshold]

\* predict_result(feature_engineered_df): what it returns, or the exception
\* that leaves it.  model.predict(df[features]) comes first, then the loop of
\* explainer calls, then result_df.
PredictResult(df, columns, config, fails) ==
    LET snapshot == LatestSnapshot(df)
    IN  IF MissingColumns(columns, config.features) # {}
        THEN [error |-> "KeyError", result_df |-> <<>>, model_interpretation |-> <<>>]
        ELSE IF \E i \in 1..Len(snapshot) : snapshot[i].emp_id \in fails
        THEN [error |-> "ExplainerError", result_df |-> <<>>, model_interpretation |-> <<>>]
        ELSE [error |-> "",
              result_df |-> [i \in 1..Len(snapshot) |-> ResultRow(snapshot[i], config)],
              model_interpretation |->
                  [i \in 1..Len(snapshot) |->
                      [emp_id |-> snapshot[i].emp_id,
                       values |-> ShapValues(SelectFeatures(snapshot[i], config.features))]]]

\* the rows of a frame with these feature columns: the columns it lacks hold 0
PredRows(columns) ==
    {r \in [emp_id : {0}, execution_date : {1, 2}, values : [FeatureColumns -> FeatureValues]] :
        \A c \in FeatureColumns \ columns : r.values[c] = 0}

\* model_config['features'] as persisted
FeatureLists == {<<"avg_salary">>, <<"num_skills", "avg_salary">>}

\* model_config['optimal_threshold'] as persisted: 0 or a threshold of the grid
PersistedThresholds == {0, GridStop - GridStep}

-----------------------------------------------------------------------------
(* generate_termination_analysis(): impact factors *)

(* SHAP values are whole numbers.  A vector of contributions is              *)
(* [nums, den]: contribution i is nums[i] / den, den being 1 for one         *)
(* employee and the number of employees averaged for a mean.  Percentages    *)
(* are counted in hundredths of a percent, the two decimals round(..., 2)    *)
(* keeps.  sort_values leaves the order of equal keys open; here equal keys  *)
(* keep the order they had.                                                  *)

Abs(x) == IF x < 0 THEN 0 - x ELSE x

\* (... * 100) rounded to 2 decimals, in hundredths of a percent
PctScale == 10000

\* round(a / b, ...) for a >= 0 and b > 0: to the nearest, ties to even
RoundHalfEven(a, b) ==
    LET q == a \div b
        r == a % b
    IN  IF 2 * r < b THEN q
        ELSE IF 2 * r > b THEN q + 1
        ELSE IF q % 2 = 0 THEN q ELSE q + 1

\* round((value / total) * 100, 2); a zero total gives inf or NaN, not a number
Percentage(value, total) ==
    IF total = 0 THEN [finite |-> FALSE, pct |-> 0]
    ELSE [finite |-> TRUE,
          pct |-> (IF (value < 0) = (total < 0) THEN 1 ELSE 0 - 1)
                      * RoundHalfEven(Abs(value) * PctScale, Abs(total))]

RECURSIVE InsertDesc(_, _, _)
\* row x put into rows (descending by column key) before the first row that is
\* not above it
InsertDesc(x, rows, key) ==
    IF rows = <<>> THEN <<x>>
    ELSE IF Head(rows)[key] <= x[key] THEN <<x>> \o rows
    ELSE <<Head(rows)>> \o InsertDesc(x, Tail(rows), key)

RECURSIVE SortDesc(_, _)
\* rows.sort_values(by=key, ascending=False)
SortDesc(rows, key) ==
    IF rows = <<>> THEN <<>>
    ELSE InsertDesc(Head(rows), SortDesc(Tail(rows), key), key)

\* as MeanVector, of the absolute contributions
MeanAbsVector(rows, n) ==
    [nums |-> [i \in 1..n |-> SumSeq([k \in 1..Len(rows) |-> Abs(rows[k].values[i])])],
     den |-> Len(rows)]

\* df[features].mean() over the rows of a SHAP frame: the column sums over the count
MeanVector(rows, n) ==
    [nums |-> [i \in 1..n |-> SumSeq([k \in 1..Len(rows) |-> rows[k].values[i]])],
     den |-> Len(rows)]

\* the vector of one employee
OwnVector(row) == [nums |-> row.values, den |-> 1]

\* impact_value.abs() > impact_value.abs().mean(), for contribution i of vec
AboveAbsMean(vec, i) ==
    Abs(vec.nums[i]) * Len(vec.nums) * vec.den
        > SumSeq([k \in 1..Len(vec.nums) |-> Abs(vec.nums[k])]) * vec.den

\* the impact_factors of one employee, department or job level: the rows above
\* the mean absolute contribution, their share of the retained absolute total
\* as impact_percentage, sorted by it
ImpactFactors(features, vec) ==
    LET kept == PositionsIn(features, {i \in 1..Len(features) : AboveAbsMean(vec, i)})
        total_abs_impact == SumSeq([k \in 1..Len(kept) |-> Abs(vec.nums[kept[k]])])
    IN  SortDesc([k \in 1..Len(kept) |->
                     [feature |-> features[kept[k]],
                      impact_percentage |->
                          Percentage(Abs(vec.nums[kept[k]]) * vec.den,
                                     total_abs_impact * vec.den).pct]],
                 "impact_percentage")

-----------------------------------------------------------------------------
(* generate_termination_analysis(): the report *)

\* num_features = 5
num_features == 5

\* section 7, before the recommendations: the mean contribution of every
\* feature over all employees, sorted descending, the first num_features of
\* them, each with its share of their total
MeanImportance(features, all_shap_df) ==
    LET mean == MeanVector(all_shap_df, Len(features))
        sorted == SortDesc([i \in 1..Len(features) |->
                               [feature |-> features[i], impact_value |-> mean.nums[i]]],
                           "impact_value")
        head == SubSeq(sorted, 1, Min2(num_features, Len(sorted)))
        total_impact == SumSeq([k \in 1..Len(head) |-> head[k].impact_value])
    IN  [k \in 1..Len(head) |->
            [feature |-> head[k].feature,
             impact_value |-> head[k].impact_value,
             impact_percentage |-> Percentage(head[k].impact_value * mean.den,
                                              total_impact * mean.den)]]

\* json.loads(response.text)['recommendation'], any exception giving []:
\* <<TRUE, list>> for a list, <<FALSE, <<>>>> for anything else
ParsedRecommendations(response) ==
    IF response.kind \in {"unparseable", "no_key"} THEN <<TRUE, <<>>>>
    ELSE IF response.kind = "not_a_list" THEN <<FALSE, <<>>>>
    ELSE <<TRUE, response.recommendation>>

\* pd.DataFrame(recommendations).explode("feature"): one row per feature of
\* every recommendation
Explode(recommendations) ==
    Flatten([k \in 1..Len(recommendations) |->
                [n \in 1..Len(recommendations[k].feature) |->
                    [feature |-> recommendations[k].feature[n],
                     recommendation_action |-> recommendations[k].recommendation_action]]])

\* mean_importance.merge(df_recommendations, on="feature", how="left"), then
\* every recommendation_action seen in an earlier row blanked; a feature with
\* no recommendation has "NaN"
WithRecommendations(mean_importance, df_recommendations) ==
    LET pairs == LeftMerge([i \in 1..Len(mean_importance) |-> mean_importance[i].feature],
                           [j \in 1..Len(df_recommendations) |-> df_recommendations[j].feature])
        action(k) == IF pairs[k][2] = 0 THEN "NaN"
                     ELSE df_recommendations[pairs[k][2]].recommendation_action
    IN  [k \in 1..Len(pairs) |->
            [feature |-> mean_importance[pairs[k][1]].feature,
             impact_percentage |-> mean_importance[pairs[k][1]].impact_percentage,
             recommendation_action |->
                 IF \E m \in 1..(k - 1) : action(m) = action(k) THEN "" ELSE action(k)]]

\* mean_importance['recommendation_action'] = ''
WithoutRecommendations(mean_importance) ==
    [k \in 1..Len(mean_importance) |->
        [feature |-> mean_importance[k].feature,
         impact_percentage |-> mean_importance[k].impact_percentage,
         recommendation_action |-> ""]]

\* the rows of shap_with_metadata: the SHAP row of every employee of
\* model_interpretation with that employee's metadata
ShapWithMetadata(interpretation, metadata) ==
    [i \in 1..Len(interpretation) |->
        LET m == CHOOSE m \in Range(metadata) : m.emp_id = interpretation[i].emp_id
        IN  [emp_id |-> interpretation[i].emp_id,
             values |-> interpretation[i].values,
             department_name |-> m.department_name,
             job_level_name |-> m.job_level_name]]

\* section 8: one entry per employee predicted to leave
ReasonByEmployee(features, shap_with_metadata, model_result) ==
    LET leavers == {r.emp_id : r \in {r \in Range(model_result) : r.predicted_termination}}
        termination_shap_emp ==
            SelectSeq(shap_with_metadata, LAMBDA row : row.emp_id \in leavers)
    IN  [k \in 1..Len(termination_shap_emp) |->
            [employee_id |-> termination_shap_emp[k].emp_id,
             impact_factors |-> ImpactFactors(features, OwnVector(termination_shap_emp[k]))]]

\* sections 9 and 10: one entry per value of the cohort column, from the mean
\* SHAP row of the cohort (groupby(column)[features].mean()); ordered lists
\* the values of the column in groupby's sorted order
ReasonByCohort(features, shap_with_metadata, column, ordered) ==
    LET names == SelectSeq(ordered,
                           LAMBDA name : \E row \in Range(shap_with_metadata) : row[column] = name)
    IN  [k \in 1..Len(names) |->
            [cohort |-> names[k],
             impact_factors |->
                 ImpactFactors(features,
                     MeanVector(SelectSeq(shap_with_metadata,
                                          LAMBDA row : row[column] = names[k]),
                                Len(features)))]]

\* department_name and job_level_name of employee_metadata, in sorted order
DepartmentNames == <<"Engineering", "Sales">>
JobLevelNames == <<"Junior", "Senior">>

NoReport ==
    [top_quitting_reason |-> <<>>, reason_by_employee |-> <<>>,
     reason_by_department |-> <<>>, reason_by_job_level |-> <<>>]

\* features = model_config['features']; features.remove('department_name');
\* features.append('department_name_shap'): the list of model_config itself,
\* with the first department_name taken out and the new name put at the end
ShapFeatures(features) ==
    IF "department_name" \in Range(features)
    THEN LET first == CHOOSE i \in 1..Len(features) :
                          /\ features[i] = "department_name"
                          /\ \A k \in 1..(i - 1) : features[k] # "department_name"
         IN  RowsAt(features, (1..Len(features)) \ {first}) \o <<"department_name_shap">>
    ELSE features

\* generate_termination_analysis(model_config, model_interpretation,
\* model_result): the report, or the exception that leaves the function, and
\* model_config['features'] as the call leaves it.  Every row of SHAP values
\* gets the names of that list as its column names, by position.
\* client.models.generate_content is called outside any try; an empty list of
\* recommendations makes explode("feature") raise KeyError.  Sections 2 to 6
\* (summary, proportions, distributions) only read their inputs.
GenerateTerminationAnalysis(model_features, interpretation, model_result, metadata, response) ==
    LET features == ShapFeatures(model_features)
        shap_with_metadata == ShapWithMetadata(interpretation, metadata)
        mean_importance == MeanImportance(features, interpretation)
        parsed == ParsedRecommendations(response)
    IN  IF response.kind = "raises"
        THEN [error |-> "APIError", json_result |-> NoReport, features |-> features]
        ELSE IF parsed[1] /\ parsed[2] = <<>>
        THEN [error |-> "KeyError", json_result |-> NoReport, features |-> features]
        ELSE [error |-> "",
              features |-> features,
              json_result |->
                  [top_quitting_reason |->
                       IF parsed[1] THEN WithRecommendations(mean_importance, Explode(parsed[2]))
                       ELSE WithoutRecommendations(mean_importance),
                   reason_by_employee |->
                       ReasonByEmployee(features, shap_with_metadata, model_result),
                   reason_by_department |->
                       ReasonByCohort(features, shap_with_metadata, "department_name",
                                      DepartmentNames),
                   reason_by_job_level |->
                       ReasonByCohort(features, shap_with_metadata, "job_level_name",
                                      JobLevelNames)]]

NumTaEmps == 2
NumFreeShap == 2

\* model_config['features']: a model of one feature, one of two whose first
\* is department_name, and one of six
TaFeatureLists ==
    {<<"avg_salary">>,
     <<"department_name", "avg_salary">>,
     <<"avg_salary", "num_skills", "total_working_year", "num_training", "num_activity",
       "avg_performance_score">>}

ShapLevels == {0 - 2, 0, 1}

\* SHAP rows of the first employee: any levels on the first NumFreeShap
\* features, 0 on the others
FreeShapRows(n) ==
    {v \in [1..n -> ShapLevels] : \A i \in 1..n : i > NumFreeShap => v[i] = 0}

MixedShapRow == <<3, 0 - 5, 1, 0, 2, 0 - 1>>

\* SHAP rows of the other employees: all zero, all equal, and of both signs
OtherShapRows(n) ==
    {[i \in 1..n |-> 0], [i \in 1..n |-> 1], [i \in 1..n |-> MixedShapRow[i]]}

\* department_name and job_level_name of the other employees
OtherCohorts == {<<1, 1>>, <<2, 1>>, <<1, 2>>}

\* what the text-generation call does: raise, or answer with a text
GenAIResponses ==
    {[kind |-> "raises", recommendation |-> <<>>],
     [kind |-> "unparseable", recommendation |-> <<>>],
     [kind |-> "no_key", recommendation |-> <<>>],
     [kind |-> "list", recommendation |-> <<>>],
     [kind |-> "not_a_list", recommendation |-> <<>>],
     [kind |-> "list",
      recommendation |->
          <<[feature |-> <<"avg_salary", "num_skills">>,
             recommendation_action |-> "Review pay against the market."],
            [feature |-> <<"total_working_year">>,
             recommendation_action |-> "Offer career paths to long-tenured staff."]>>]}

NoResponse == [kind |-> "none", recommendation |-> <<>>]

-----------------------------------------------------------------------------
(* api.py, inference_worker.py, inference_worker_simple.py: the Redis jobs *)
(*                                                                           *)
(* redis_jobs[j] is the hash job:{j}, <<>> while the key does not exist and  *)
(* <<status>> once it does; job_queue is the list "job_queue", its left end  *)
(* first.  One worker process runs, of the module worker_module names.  The  *)
(* API and the worker are separate processes: every Redis command is one     *)
(* step, and commands of the two interleave.                                 *)

JobIds == 1..NumJobs

WorkerModules == {"inference_worker", "inference_worker_simple"}

\* job_data["status"] of hgetall(f"job:{job_id}")
RedisStatus(job_id) == redis_jobs[job_id][1]

\* hgetall(f"job:{job_id}") is not empty
RedisHasJob(job_id) == redis_jobs[job_id] # <<>>

\* hset(f"job:{job_id}", ...) with a status among the fields
HsetStatus(job_id, job_state) == [redis_jobs EXCEPT ![job_id] = <<job_state>>]

\* brpop("job_queue"): the right end, the id pushed first
Brpop(queue) == <<queue[Len(queue)], SubSeq(queue, 1, Len(queue) - 1)>>

\* blpop('job_queue'): the left end, the id pushed last
Blpop(queue) == <<Head(queue), Tail(queue)>>

\* no job, no request in flight, a worker waiting on the queue
IdleRedis ==
    /\ redis_jobs = [j \in JobIds |-> <<>>]
    /\ job_queue = <<>>
    /\ cancel_pc = [j \in JobIds |-> "idle"]
    /\ worker_module = "inference_worker"
    /\ worker_pc = "loop"
    /\ worker_job_id = 0

\* create_job: uuid4 gives an id no job has; hset of the record with status
\* "pending", then lpush of the id.  Nobody knows the id before create_job
\* returns, so the two commands are one step.
CreateJob(job_id) ==
    /\ ~RedisHasJob(job_id)
    /\ \A j \in JobIds : j < job_id => RedisHasJob(j)
    /\ redis_jobs' = HsetStatus(job_id, "pending")
    /\ job_queue' = <<job_id>> \o job_queue
    /\ UNCHANGED <<cancel_pc, worker_module, worker_pc, worker_job_id>>

\* cancel_job up to its two checks: get_job_status, 404 when there is no such
\* job, 400 when the status read is completed or failed
CancelJobRead(job_id) ==
    /\ cancel_pc[job_id] = "idle"
    /\ RedisHasJob(job_id)
    /\ RedisStatus(job_id) \notin {"completed", "failed"}
    /\ cancel_pc' = [cancel_pc EXCEPT ![job_id] = "checked"]
    /\ UNCHANGED <<redis_jobs, job_queue, worker_module, worker_pc, worker_job_id>>

\* cancel_job after the checks: hset status "cancelled" (and updated_at); the
\* id stays in job_queue
CancelJobWrite(job_id) ==
    /\ cancel_pc[job_id] = "checked"
    /\ redis_jobs' = HsetStatus(job_id, "cancelled")
    /\ cancel_pc' = [cancel_pc EXCEPT ![job_id] = "idle"]
    /\ UNCHANGED <<job_queue, worker_module, worker_pc, worker_job_id>>

\* inference_worker.run: brpop returned an id; process_job(job_id) is entered
WorkerBrpop ==
    /\ worker_module = "inference_worker"
    /\ worker_pc = "loop"
    /\ job_queue # <<>>
    /\ worker_job_id' = Brpop(job_queue)[1]
    /\ job_queue' = Brpop(job_queue)[2]
    /\ worker_pc' = "picked"
    /\ UNCHANGED <<redis_jobs, cancel_pc, worker_module>>

\* process_job: hgetall (the job exists), the request is parsed, then
\* update_job_status(job_id, "processing", progress=0.0); the status read by
\* hgetall is not looked at
WorkerSetProcessing ==
    /\ worker_module = "inference_worker"
    /\ worker_pc = "picked"
    /\ RedisHasJob(worker_job_id)
    /\ redis_jobs' = HsetStatus(worker_job_id, "processing")
    /\ worker_pc' = "processing"
    /\ UNCHANGED <<job_queue, cancel_pc, worker_module, worker_job_id>>

\* process_job: the analysis returned; update_job_status(job_id, "completed",
\* progress=1.0, result=result); process_job returns and job_id is gone
WorkerSetCompleted ==
    /\ worker_module = "inference_worker"
    /\ worker_pc = "processing"
    /\ redis_jobs' = HsetStatus(worker_job_id, "completed")
    /\ worker_pc' = "loop"
    /\ worker_job_id' = 0
    /\ UNCHANGED <<job_queue, cancel_pc, worker_module>>

\* process_job: the analysis raised; except Exception:
\* update_job_status(job_id, "failed", error=str(e))
WorkerSetFailed ==
    /\ worker_module = "inference_worker"
    /\ worker_pc = "processing"
    /\ redis_jobs' = HsetStatus(worker_job_id, "failed")
    /\ worker_pc' = "loop"
    /\ worker_job_id' = 0
    /\ UNCHANGED <<job_queue, cancel_pc, worker_module>>

\* inference_worker_simple.run: blpop returned an id; job_id is a local of
\* run and keeps its value over the iterations of the loop
SimpleBlpop ==
    /\ worker_module = "inference_worker_simple"
    /\ worker_pc = "loop"
    /\ job_queue # <<>>
    /\ worker_job_id' = Blpop(job_queue)[1]
    /\ job_queue' = Blpop(job_queue)[2]
    /\ worker_pc' = "picked"
    /\ UNCHANGED <<redis_jobs, cancel_pc, worker_module>>

\* run: hgetall (the job exists), the request is parsed, hset status
\* 'processing'
SimpleSetProcessing ==
    /\ worker_module = "inference_worker_simple"
    /\ worker_pc = "picked"
    /\ RedisHasJob(worker_job_id)
    /\ redis_jobs' = HsetStatus(worker_job_id, "processing")
    /\ worker_pc' = "processing"
    /\ UNCHANGED <<job_queue, cancel_pc, worker_module, worker_job_id>>

\* run: process_job returned, hset status 'completed'; the loop goes round
\* with job_id still bound
SimpleSetCompleted ==
    /\ worker_module = "inference_worker_simple"
    /\ worker_pc = "processing"
    /\ redis_jobs' = HsetStatus(worker_job_id, "completed")
    /\ worker_pc' = "loop"
    /\ UNCHANGED <<job_queue, cancel_pc, worker_module, worker_job_id>>

\* run: a statement of the try block raised while the job was being processed;
\* except Exception: 'job_id' in locals(), hset status 'failed'
SimpleSetFailed ==
    /\ worker_module = "inference_worker_simple"
    /\ worker_pc = "processing"
    /\ redis_jobs' = HsetStatus(worker_job_id, "failed")
    /\ worker_pc' = "loop"
    /\ UNCHANGED <<job_queue, cancel_pc, worker_module, worker_job_id>>

\* run: blpop raised (the connection to Redis dropped and came back); except
\* Exception: 'job_id' in locals() holds once a job has been popped, and the
\* handler writes 'failed' to the job of the iteration before
SimpleBlpopRaises ==
    /\ worker_module = "inference_worker_simple"
    /\ worker_pc = "loop"
    /\ worker_job_id # 0
    /\ redis_jobs' = HsetStatus(worker_job_id, "failed")
    /\ UNCHANGED <<job_queue, cancel_pc, worker_module, worker_pc, worker_job_id>>

WorkerStep ==
    \/ WorkerBrpop
    \/ WorkerSetProcessing
    \/ WorkerSetCompleted
    \/ WorkerSetFailed

SimpleWorkerStep ==
    \/ SimpleBlpop
    \/ SimpleSetProcessing
    \/ SimpleSetCompleted
    \/ SimpleSetFailed
    \/ SimpleBlpopRaises

-----------------------------------------------------------------------------
(* api/retention_api.py: the jobs of the retention pipeline *)

\* the task_id values of the requests
TaskIds == 1..NumTasks

\* a key that is not in a job record
NoValue == <<>>

\* the steps of main.py, in the order main runs them
Stages ==
    {"feature_engineering", "train_model", "save_model", "predict_result",
     "generate_termination_analysis"}

\* what may go wrong in the thread before the subprocess runs: neither script
\* path exists, or Popen cannot start the process in cwd /app
LaunchErrors ==
    {"Pipeline script not found in Docker path or local path",
     "[Errno 2] No such file or directory: '/app'"}

\* retention_jobs[job_id] = {"job_id": ..., "status": "queued", ...}
QueuedJob(job_id) == [job_id |-> job_id, status |-> "queued", error |-> NoValue]

\* main.py re-raises what a step raised, and the interpreter exits with 1
ExitCode(stage) == IF stage = "" THEN "0" ELSE "1"

\* the branch on result.returncode taken whatever the code is
StatusCompletedAlways(code) == "completed"

\* if result.returncode == 0: status "completed", else: status "failed"
StatusOfExit(code) == IF code = "0" THEN "completed" ELSE "failed"

\* f"Pipeline failed with exit code {result.returncode}"
ExitError(code) == <<"Pipeline failed with exit code", code>>

\* f"Pipeline execution error: {str(e)}"
ExceptionError(e) == <<"Pipeline execution error:", e>>

\* a thread whose exception handler does not record the failure
StatusAfterExceptionKept(job_status) == job_status

\* except Exception: retention_jobs[job_id]["status"] = "failed"
StatusAfterException(job_status) == "failed"

\* "job_id in retention_jobs"
HasJob(job_id) == job_id \in DOMAIN retention_jobs

\* retention_jobs[job_id][key] = value
SetJob(job_id, key, value) == [retention_jobs EXCEPT ![job_id][key] = value]

\* no job and no thread
IdleRetentionApi ==
    /\ retention_jobs = <<>>
    /\ thread_pc = [j \in TaskIds |-> <<"none">>]
    /\ returncode = [j \in TaskIds |-> ""]
    /\ failed_stage = [j \in TaskIds |-> ""]

IdleServices == IdleRetentionApi /\ IdleRedis

\* POST /trigger-retention-pipeline with task_id = job_id.  The handler has no
\* await: it runs to its end before another request is served.  A task id
\* that exists, or a job whose status is "running", gives 400 and no change.
TriggerRetentionPipeline(job_id) ==
    /\ ~HasJob(job_id)
    /\ \A j \in DOMAIN retention_jobs : retention_jobs[j].status # "running"
    /\ retention_jobs' =
           [j \in DOMAIN retention_jobs \cup {job_id} |->
               IF j = job_id THEN QueuedJob(job_id) ELSE retention_jobs[j]]
    /\ thread_pc' = [thread_pc EXCEPT ![job_id] = <<"spawned">>]
    /\ UNCHANGED <<returncode, failed_stage>>

\* execute_pipeline, lines 182-185: the thread begins
ThreadBegin(job_id) ==
    /\ thread_pc[job_id] = <<"spawned">>
    /\ retention_jobs' = SetJob(job_id, "status", "running")
    /\ thread_pc' = [thread_pc EXCEPT ![job_id] = <<"begun">>]
    /\ UNCHANGED <<returncode, failed_stage>>

\* execute_pipeline, lines 187-231: the script is looked up and the
\* subprocess started, or an exception takes the thread to its handler
ThreadLaunch(job_id) ==
    /\ thread_pc[job_id] = <<"begun">>
    /\ \/ thread_pc' = [thread_pc EXCEPT ![job_id] = <<"process">>]
       \/ \E e \in LaunchErrors : thread_pc' = [thread_pc EXCEPT ![job_id] = <<"except", e>>]
    /\ UNCHANGED <<retention_jobs, returncode, failed_stage>>

\* the subprocess runs main.py and exits: with 0, or with 1 when a step raised
ProcessExit(job_id) ==
    /\ thread_pc[job_id] = <<"process">>
    /\ \E stage \in Stages \cup {""} :
           /\ failed_stage' = [failed_stage EXCEPT ![job_id] = stage]
           /\ returncode' = [returncode EXCEPT ![job_id] = ExitCode(stage)]
    /\ thread_pc' = [thread_pc EXCEPT ![job_id] = <<"exited">>]
    /\ UNCHANGED retention_jobs

\* execute_pipeline, lines 251-262 and 277-279: the status after the exit
ThreadSetStatus(job_id) ==
    /\ thread_pc[job_id] = <<"exited">>
    /\ retention_jobs' = SetJob(job_id, "status", StatusOfExit(returncode[job_id]))
    /\ thread_pc' = [thread_pc EXCEPT ![job_id] =
                        IF returncode[job_id] = "0" THEN <<"done">> ELSE <<"failed_status_set">>]
    /\ UNCHANGED <<returncode, failed_stage>>

\* execute_pipeline, lines 280-284: the error of a failed exit
ThreadSetError(job_id) ==
    /\ thread_pc[job_id] = <<"failed_status_set">>
    /\ retention_jobs' = SetJob(job_id, "error", ExitError(returncode[job_id]))
    /\ thread_pc' = [thread_pc EXCEPT ![job_id] = <<"done">>]
    /\ UNCHANGED <<returncode, failed_stage>>

\* execute_pipeline, line 298: the handler of except Exception sets the status
ThreadExceptStatus(job_id) ==
    /\ thread_pc[job_id][1] = "except"
    /\ retention_jobs' =
           SetJob(job_id, "status", StatusAfterException(retention_jobs[job_id].status))
    /\ thread_pc' = [thread_pc EXCEPT ![job_id] = <<"except_status_set", thread_pc[job_id][2]>>]
    /\ UNCHANGED <<returncode, failed_stage>>

\* execute_pipeline, lines 299-303: the handler sets the error
ThreadExceptError(job_id) ==
    /\ thread_pc[job_id][1] = "except_status_set"
    /\ retention_jobs' = SetJob(job_id, "error", ExceptionError(thread_pc[job_id][2]))
    /\ thread_pc' = [thread_pc EXCEPT ![job_id] = <<"done">>]
    /\ UNCHANGED <<returncode, failed_stage>>

\* GET /retention-job-status/{job_id}, the body of the response for a job
\* that exists: the status, and the error of a failed job whose record has
\* one.  The handler changes nothing.
GetRetentionJobStatus(job_id) ==
    [job_id |-> job_id,
     status |-> retention_jobs[job_id].status,
     error |-> IF retention_jobs[job_id].status = "failed"
               THEN retention_jobs[job_id].error ELSE NoValue]

\* the steps of the thread of a job
ThreadStep(job_id) ==
    \/ ThreadBegin(job_id)
    \/ ThreadLaunch(job_id)
    \/ ProcessExit(job_id)
    \/ ThreadSetStatus(job_id)
    \/ ThreadSetError(job_id)
    \/ ThreadExceptStatus(job_id)
    \/ ThreadExceptError(job_id)

-----------------------------------------------------------------------------
(* The pipeline run *)

Emps == {1, 2}

\* hire dates of the first employee: the days of the first month and the first
\* day of the second
HireDates == 0..DaysPerMonth

\* hire date of the second employee: the first day of the second month
LateHireDates == {DaysPerMonth}

TermMonth == NumMonths \div 2

\* effective dates of the movement rows: the day before the month-end of
\* TermMonth, that month-end, and the first day of the month after it
MoveDates == {MonthEnd(TermMonth) - 1, MonthEnd(TermMonth), MonthEnd(TermMonth) + 1}

\* movement_type 3 == promotion
MoveTypes == TerminationTypes \cup {3}

MoveRows == [employee_id : Emps, movement_type : MoveTypes, effective_date : MoveDates]

\* "today": the last day of the calendar (a month-end) or the day before it
Todays == {NumDays - 2, NumDays - 1}

NoConfig == [training_period |-> <<>>, testing_period |-> <<>>]

\* a file that does not exist is <<>>, one that exists is <<its content>>
NoFile == <<>>

\* no file has been written yet
NoFiles ==
    /\ feature_engineered_csv = NoFile
    /\ model_pkl = NoFile
    /\ model_config_json = NoFile
    /\ model_result_parquet = NoFile
    /\ model_interpretation_pkl = NoFile
    /\ termination_result_json = NoFile

\* no pipeline run
IdlePipeline ==
    /\ pc = "idle"
    /\ emp_df = <<>>
    /\ emp_movement_df = <<>>
    /\ today = 0
    /\ final_df = <<>>
    /\ train_execution_dates = <<>>
    /\ test_execution_dates = <<>>
    /\ train_df = <<>>
    /\ test_df = <<>>
    /\ model_config = NoConfig
    /\ runs = 0
    /\ raised = ""
    /\ written = {}
    /\ prediction_df = <<>>
    /\ NoFiles

\* no calculate_z_score call
IdleZScore ==
    /\ z_pc = "idle"
    /\ z_df = <<>>
    /\ z_out = <<>>

\* no find_optimal_threshold call
IdleThreshold ==
    /\ thr_pc = "idle"
    /\ y_prob = <<>>
    /\ y_test = <<>>
    /\ recall_threshold = <<0, 1>>
    /\ optimal_threshold = 0
    /\ best_metrics = <<>>
    /\ best_model = "None"

\* no predict_result call
IdlePredict ==
    /\ pred_pc = "idle"
    /\ pred_df = <<>>
    /\ pred_columns = {}
    /\ loaded_config = [features |-> <<>>, optimal_threshold |-> 0]
    /\ explainer_fails = {}
    /\ pred_error = ""
    /\ result_df = <<>>
    /\ model_interpretation = <<>>

\* no generate_termination_analysis call
IdleAnalysis ==
    /\ ta_pc = "idle"
    /\ ta_features = <<>>
    /\ ta_interpretation = <<>>
    /\ ta_result = <<>>
    /\ ta_metadata = <<>>
    /\ genai_response = NoResponse
    /\ ta_error = ""
    /\ json_result = NoReport

\* the locals of main before its first step, and a deployment without files
RunStart ==
    /\ pc = "start"
    /\ final_df = <<>>
    /\ train_execution_dates = <<>>
    /\ test_execution_dates = <<>>
    /\ train_df = <<>>
    /\ test_df = <<>>
    /\ model_config = NoConfig
    /\ runs = 1
    /\ raised = ""
    /\ written = {}
    /\ prediction_df = <<>>
    /\ NoFiles

InitPipeline ==
    /\ IdleServices
    /\ IdleZScore
    /\ IdleThreshold
    /\ IdlePredict
    /\ IdleAnalysis
    /\ \E h1 \in HireDates, h2 \in LateHireDates :
           emp_df = <<[id |-> 1, hire_date |-> h1], [id |-> 2, hire_date |-> h2]>>
    /\ emp_movement_df \in UNION {[1..n -> MoveRows] : n \in 0..MaxMoves}
    /\ today \in Todays
    /\ RunStart

\* movement tables of the repeated runs: no row or one row
MainMovements == {<<>>} \cup {<<m>> : m \in MoveRows}

InitMain ==
    /\ IdleServices
    /\ IdleZScore
    /\ IdleThreshold
    /\ IdlePredict
    /\ IdleAnalysis
    /\ \E h1 \in HireDates, h2 \in LateHireDates :
           emp_df = <<[id |-> 1, hire_date |-> h1], [id |-> 2, hire_date |-> h2]>>
    /\ emp_movement_df \in MainMovements
    /\ today \in Todays
    /\ RunStart

\* a handler that logs the exception of a step and goes on with the next one
Swallow(returned, next_pc) == next_pc

\* main's try block: a step that returns leads to the next one, an exception
\* skips the rest of the block, is logged and re-raised
Propagate(returned, next_pc) == IF returned THEN next_pc ELSE "failed"

\* pickle.dump(model, file): the model fitted on the training rows
TrainedModel(rows) == [fitted_on |-> rows]

\* main, step 1: feature_engineered_df = feature_engineering().
\* Reading the input tables or geocoding a postal code may raise; a panel that
\* is built is written to FEATURE_ENGINEERED_PATH before it is returned.
FeatureEngineering ==
    /\ pc = "start"
    /\ \E returned \in BOOLEAN :
           /\ IF returned
              THEN /\ final_df' = FinalPanel(emp_df, emp_movement_df, today)
                   /\ feature_engineered_csv' = <<final_df'>>
                   /\ written' = written \cup {"feature_engineered_data.csv"}
                   /\ UNCHANGED raised
              ELSE /\ raised' = "feature_engineering"
                   /\ UNCHANGED <<final_df, feature_engineered_csv, written>>
           /\ pc' = Propagate(returned, "feature_engineered")
    /\ UNCHANGED <<emp_df, emp_movement_df, today, train_execution_dates,
                   test_execution_dates, train_df, test_df, model_config>>
    /\ UNCHANGED <<runs, prediction_df, model_pkl, model_config_json, model_result_parquet,
                   model_interpretation_pkl, termination_result_json>>
    /\ UNCHANGED <<z_vars, thr_vars, pred_vars, ta_vars, svc_vars>>

\* main, step 2: model, model_config = train_model(feature_engineered_df).
\* The fit of an empty training frame raises, and main re-raises it.
TrainModel ==
    /\ pc = "feature_engineered"
    /\ train_execution_dates' = TrainExecutionDates(final_df)
    /\ test_execution_dates' = TestExecutionDates(final_df)
    /\ train_df' = QueryIsin(final_df, TrainExecutionDates(final_df))
    /\ test_df' = QueryIsin(final_df, TestExecutionDates(final_df))
    /\ IF QueryIsin(final_df, TrainExecutionDates(final_df)) = <<>>
       THEN /\ raised' = "train_model"
            /\ UNCHANGED model_config
       ELSE /\ model_config' = [training_period |-> Period(TrainExecutionDates(final_df)),
                                testing_period |-> Period(TestExecutionDates(final_df))]
            /\ UNCHANGED raised
    /\ pc' = Propagate(QueryIsin(final_df, TrainExecutionDates(final_df)) # <<>>, "trained")
    /\ UNCHANGED <<emp_df, emp_movement_df, today, final_df>>
    /\ UNCHANGED <<runs, written, prediction_df, file_vars>>
    /\ UNCHANGED <<z_vars, thr_vars, pred_vars, ta_vars, svc_vars>>

\* main, step 3: save_model(model, model_config) writes model.pkl and
\* model_config.json into config.MODEL_OUTPUT_DIR, over what is there.
\* config/config.py sets no MODEL_OUTPUT_DIR: where the deployment does not
\* set it either, reading it raises AttributeError before anything is written.
SaveModel ==
    /\ pc = "trained"
    /\ \E dir_set \in BOOLEAN :
           /\ IF dir_set
              THEN /\ model_pkl' = <<TrainedModel(train_df)>>
                   /\ model_config_json' = <<model_config>>
                   /\ written' = written \cup {"model.pkl", "model_config.json"}
                   /\ UNCHANGED raised
              ELSE /\ raised' = "save_model"
                   /\ UNCHANGED <<model_pkl, model_config_json, written>>
           /\ pc' = Propagate(dir_set, "saved")
    /\ UNCHANGED <<runs, prediction_df, feature_engineered_csv, model_result_parquet,
                   model_interpretation_pkl, termination_result_json>>
    /\ UNCHANGED <<emp_df, emp_movement_df, today, final_df, train_execution_dates,
                   test_execution_dates, train_df, test_df, model_config>>
    /\ UNCHANGED <<z_vars, thr_vars, pred_vars, ta_vars, svc_vars>>

\* the employees of the latest snapshot, one row each
SnapshotEmployees(df) ==
    IF df = <<>> THEN <<>>
    ELSE [i \in 1..Len(LatestSnapshot(df)) |-> [emp_id |-> LatestSnapshot(df)[i].emp_id]]

\* main, step 4: predict_result(feature_engineered_df) reads the two model
\* files and returns one row per employee of the latest snapshot, or raises
\* (the explainer, the selection of the feature columns); it writes nothing
MainPredictResult ==
    /\ pc = "saved"
    /\ \E returned \in BOOLEAN :
           /\ IF returned
              THEN /\ prediction_df' = SnapshotEmployees(final_df)
                   /\ UNCHANGED raised
              ELSE /\ raised' = "predict_result"
                   /\ UNCHANGED prediction_df
           /\ pc' = Propagate(returned, "predicted")
    /\ UNCHANGED <<runs, written, file_vars>>
    /\ UNCHANGED <<emp_df, emp_movement_df, today, final_df, train_execution_dates,
                   test_execution_dates, train_df, test_df, model_config>>
    /\ UNCHANGED <<z_vars, thr_vars, pred_vars, ta_vars, svc_vars>>

\* main, step 5: save_model_result(prediction_df, feature_importance_df,
\* model_interpretation) writes model_result.parquet and
\* model_interpretation.pkl (the dict keyed by emp_id)
SaveModelResult ==
    /\ pc = "predicted"
    /\ model_result_parquet' = <<prediction_df>>
    /\ model_interpretation_pkl' = <<{prediction_df[i].emp_id : i \in 1..Len(prediction_df)}>>
    /\ written' = written \cup {"model_result.parquet", "model_interpretation.pkl"}
    /\ pc' = "results_saved"
    /\ UNCHANGED <<runs, raised, prediction_df, feature_engineered_csv, model_pkl,
                   model_config_json, termination_result_json>>
    /\ UNCHANGED <<emp_df, emp_movement_df, today, final_df, train_execution_dates,
                   test_execution_dates, train_df, test_df, model_config>>
    /\ UNCHANGED <<z_vars, thr_vars, pred_vars, ta_vars, svc_vars>>

\* main, step 6: generate_termination_analysis(model_config,
\* model_interpretation, prediction_df) returns the report, which main dumps
\* to TERMINATION_ANALYSIS_OUTPUT, or raises (the text-generation service)
MainTerminationAnalysis ==
    /\ pc = "results_saved"
    /\ \E returned \in BOOLEAN :
           /\ IF returned
              THEN /\ termination_result_json' =
                          <<[model_config |-> model_config, prediction_df |-> prediction_df]>>
                   /\ written' = written \cup {"termination_result.json"}
                   /\ UNCHANGED raised
              ELSE /\ raised' = "generate_termination_analysis"
                   /\ UNCHANGED <<termination_result_json, written>>
           /\ pc' = Propagate(returned, "completed")
    /\ UNCHANGED <<runs, prediction_df, feature_engineered_csv, model_pkl, model_config_json,
                   model_result_parquet, model_interpretation_pkl>>
    /\ UNCHANGED <<emp_df, emp_movement_df, today, final_df, train_execution_dates,
                   test_execution_dates, train_df, test_df, model_config>>
    /\ UNCHANGED <<z_vars, thr_vars, pred_vars, ta_vars, svc_vars>>

\* the pipeline is started again, the same day or later, on the same input
\* tables and with the files the earlier runs left
NextRun ==
    /\ pc \in {"failed", "completed"}
    /\ runs < MaxRuns
    /\ runs' = runs + 1
    /\ \E t \in Todays : t >= today /\ today' = t
    /\ pc' = "start"
    /\ final_df' = <<>>
    /\ train_execution_dates' = <<>>
    /\ test_execution_dates' = <<>>
    /\ train_df' = <<>>
    /\ test_df' = <<>>
    /\ model_config' = NoConfig
    /\ raised' = ""
    /\ written' = {}
    /\ prediction_df' = <<>>
    /\ UNCHANGED <<emp_df, emp_movement_df, file_vars>>
    /\ UNCHANGED <<z_vars, thr_vars, pred_vars, ta_vars, svc_vars>>

\* one run, up to the trained model
NextPipeline == FeatureEngineering \/ TrainModel

\* runs of main
NextMain ==
    \/ FeatureEngineering
    \/ TrainModel
    \/ SaveModel
    \/ MainPredictResult
    \/ SaveModelResult
    \/ MainTerminationAnalysis
    \/ NextRun

InitZScore ==
    /\ IdleServices
    /\ IdlePipeline
    /\ IdleThreshold
    /\ IdlePredict
    /\ IdleAnalysis
    /\ z_pc = "call"
    /\ z_df \in UNION {[1..n -> ZRows] : n \in 0..MaxRows}
    /\ z_out = <<>>

\* one call calculate_z_score(dataframe, group_column, value_column)
CallZScore ==
    /\ z_pc = "call"
    /\ z_out' = CalculateZScore(z_df)
    /\ z_pc' = "returned"
    /\ UNCHANGED <<z_df, fe_vars, thr_vars, pred_vars, ta_vars, main_vars, svc_vars>>

NextZScore == CallZScore

InitThreshold ==
    /\ IdleServices
    /\ IdlePipeline
    /\ IdleZScore
    /\ IdlePredict
    /\ IdleAnalysis
    /\ thr_pc = "call"
    /\ y_prob \in [1..NumSamples -> Scores]
    /\ y_test \in [1..NumSamples -> TestLabels]
    /\ recall_threshold \in RecallFloors
    /\ optimal_threshold = 0
    /\ best_metrics = <<>>
    /\ best_model = "None"

\* one call find_optimal_threshold(model, X_test, y_test, 'macro_f1', recall_threshold)
CallFindOptimalThreshold ==
    /\ thr_pc = "call"
    /\ LET found == FindOptimalThreshold(y_prob, y_test, recall_threshold)
       IN  /\ optimal_threshold' = found.optimal_threshold
           /\ best_metrics' = found.best_metrics
    /\ thr_pc' = "returned"
    /\ UNCHANGED <<y_prob, y_test, recall_threshold, best_model, fe_vars, z_vars, pred_vars,
                   ta_vars, main_vars, svc_vars>>

\* finetune_model, the loop over feature_set with the (threshold, metrics) that
\* fit_model hands on from find_optimal_threshold: best_model stays None and
\* optimal_threshold stays 0 unless the metrics are not None, beat -inf and
\* meet the recall floor; nothing is raised
FinetuneModel ==
    /\ thr_pc = "returned"
    /\ IF best_metrics # <<>> /\ Improves(best_metrics[1], NegInf, recall_threshold)
       THEN /\ best_model' = "model"
            /\ UNCHANGED <<optimal_threshold, best_metrics>>
       ELSE /\ best_model' = "None"
            /\ optimal_threshold' = 0
            /\ best_metrics' = <<>>
    /\ thr_pc' = "finetuned"
    /\ UNCHANGED <<y_prob, y_test, recall_threshold, fe_vars, z_vars, pred_vars, ta_vars,
                   main_vars, svc_vars>>

NextThreshold == CallFindOptimalThreshold \/ FinetuneModel

\* the explainer raises on no row, on the first employee's or on the last one's
ExplainerFailSets == {{}, {1}, {NumPredRows}}

InitPredict ==
    /\ IdleServices
    /\ IdlePipeline
    /\ IdleZScore
    /\ IdleThreshold
    /\ IdleAnalysis
    /\ pred_pc = "call"
    /\ pred_columns \in SUBSET FeatureColumns
    /\ \E rows \in [1..NumPredRows -> PredRows(pred_columns)] :
           pred_df = [i \in 1..NumPredRows |-> [rows[i] EXCEPT !.emp_id = i]]
    /\ loaded_config \in [features : FeatureLists, optimal_threshold : PersistedThresholds]
    /\ explainer_fails \in ExplainerFailSets
    /\ pred_error = ""
    /\ result_df = <<>>
    /\ model_interpretation = <<>>

\* one call predict_result(feature_engineered_df)
CallPredictResult ==
    /\ pred_pc = "call"
    /\ LET out == PredictResult(pred_df, pred_columns, loaded_config, explainer_fails)
       IN  /\ pred_error' = out.error
           /\ result_df' = out.result_df
           /\ model_interpretation' = out.model_interpretation
           /\ pred_pc' = IF out.error = "" THEN "returned" ELSE "raised"
    /\ UNCHANGED <<pred_df, pred_columns, loaded_config, explainer_fails>>
    /\ UNCHANGED <<fe_vars, z_vars, thr_vars, ta_vars, main_vars, svc_vars>>

NextPredict == CallPredictResult

InitAnalysis ==
    /\ IdleServices
    /\ IdlePipeline
    /\ IdleZScore
    /\ IdleThreshold
    /\ IdlePredict
    /\ ta_pc = "call"
    /\ ta_features \in TaFeatureLists
    /\ \E first \in FreeShapRows(Len(ta_features)),
          others \in [2..NumTaEmps -> OtherShapRows(Len(ta_features))] :
           ta_interpretation =
               [e \in 1..NumTaEmps |->
                   [emp_id |-> e, values |-> IF e = 1 THEN first ELSE others[e]]]
    /\ \E leaves \in BOOLEAN :
           ta_result =
               [e \in 1..NumTaEmps |->
                   [emp_id |-> e, predicted_termination |-> IF e = 1 THEN leaves ELSE TRUE]]
    /\ \E cohorts \in [2..NumTaEmps -> OtherCohorts] :
           ta_metadata =
               [e \in 1..NumTaEmps |->
                   [emp_id |-> e,
                    department_name |-> DepartmentNames[IF e = 1 THEN 1 ELSE cohorts[e][1]],
                    job_level_name |-> JobLevelNames[IF e = 1 THEN 1 ELSE cohorts[e][2]]]]
    /\ genai_response = NoResponse
    /\ ta_error = ""
    /\ json_result = NoReport

\* one call generate_termination_analysis(model_config, model_interpretation,
\* prediction_df), with what the text-generation service does during it
CallGenerateTerminationAnalysis ==
    /\ ta_pc = "call"
    /\ \E response \in GenAIResponses :
           LET out == GenerateTerminationAnalysis(ta_features, ta_interpretation, ta_result,
                                                  ta_metadata, response)
           IN  /\ genai_response' = response
               /\ ta_features' = out.features
               /\ ta_error' = out.error
               /\ json_result' = out.json_result
               /\ ta_pc' = IF out.error = "" THEN "returned" ELSE "raised"
    /\ UNCHANGED <<ta_interpretation, ta_result, ta_metadata>>
    /\ UNCHANGED <<fe_vars, z_vars, thr_vars, pred_vars, main_vars, svc_vars>>

NextAnalysis == CallGenerateTerminationAnalysis

Spec == InitPipeline /\ [][NextPipeline]_vars

SpecZScore == InitZScore /\ [][NextZScore]_vars

SpecThreshold == InitThreshold /\ [][NextThreshold]_vars

SpecPredict == InitPredict /\ [][NextPredict]_vars

SpecAnalysis == InitAnalysis /\ [][NextAnalysis]_vars

SpecMain == InitMain /\ [][NextMain]_vars

InitRetentionApi ==
    /\ IdlePipeline
    /\ IdleZScore
    /\ IdleThreshold
    /\ IdlePredict
    /\ IdleAnalysis
    /\ IdleRetentionApi
    /\ IdleRedis

NextRetentionApi ==
    /\ \E job_id \in TaskIds :
           \/ TriggerRetentionPipeline(job_id)
           \/ ThreadStep(job_id)
    /\ UNCHANGED <<fe_vars, z_vars, thr_vars, pred_vars, ta_vars, main_vars,
                   redis_vars>>

\* the threads are scheduled and the subprocess terminates
FairThreads ==
    \A job_id \in TaskIds :
        WF_vars(ThreadStep(job_id)
                    /\ UNCHANGED <<fe_vars, z_vars, thr_vars, pred_vars, ta_vars, main_vars,
                   redis_vars>>)

SpecRetentionApi == InitRetentionApi /\ [][NextRetentionApi]_vars /\ FairThreads

\* the worker process is started from one of the two worker modules
InitRedis ==
    /\ IdlePipeline
    /\ IdleZScore
    /\ IdleThreshold
    /\ IdlePredict
    /\ IdleAnalysis
    /\ IdleRetentionApi
    /\ redis_jobs = [j \in JobIds |-> <<>>]
    /\ job_queue = <<>>
    /\ cancel_pc = [j \in JobIds |-> "idle"]
    /\ worker_module \in WorkerModules
    /\ worker_pc = "loop"
    /\ worker_job_id = 0

NextRedis ==
    /\ \/ \E job_id \in JobIds :
              \/ CreateJob(job_id)
              \/ CancelJobRead(job_id)
              \/ CancelJobWrite(job_id)
       \/ WorkerStep
       \/ SimpleWorkerStep
    /\ UNCHANGED <<fe_vars, z_vars, thr_vars, pred_vars, ta_vars, main_vars, api_vars>>

SpecRedis == InitRedis /\ [][NextRedis]_vars

-----------------------------------------------------------------------------
(* Properties of the panel *)

PanelReturned == pc # "start"

\* the termination movements of employee e
TerminationsOf(e) ==
    {m \in Range(emp_movement_df) :
        m.employee_id = e /\ m.movement_type \in TerminationTypes}

\* the employee was hired by date d and has no termination dated d or earlier
ActiveAt(e, d) ==
    /\ \E i \in 1..Len(emp_df) : emp_df[i].id = e /\ emp_df[i].hire_date <= d
    /\ \A m \in TerminationsOf(e) : m.effective_date > d

\* whole months from the first day of the month of execution date d to date t
MonthOffset(t, d) == MonthOf(t) - MonthOf(d)

\* C1: no two rows of the returned panel share (emp_id, execution_date).
C1_PanelKeysUnique ==
    PanelReturned =>
        \A i, j \in 1..Len(final_df) :
            i # j => PanelKey(final_df[i]) # PanelKey(final_df[j])

\* C1 witness: the joins produced several rows for one key and the returned
\* panel is shorter than the concatenated frames.
C1_Witness ==
    /\ PanelReturned
    /\ Len(final_df) < Len(ConcatPanel(emp_df, emp_movement_df, today))
    /\ Len(final_df) > 0

C3_LabelMatchesOffset ==
    PanelReturned =>
        \A i \in 1..Len(final_df) :
            LET row == final_df[i]
                offsets == {MonthOffset(m.effective_date, row.execution_date) :
                               m \in TerminationsOf(row.emp_id)}
            IN  /\ row.termination_value \in 0..LabelDenominator
                /\ row.termination_value # 0 =>
                       (LabelDenominator - row.termination_value) \in offsets
                /\ row.termination_value = 0 <=> offsets \cap {0, 1, 2} = {}

\* C4 (as claimed): a termination on any day from the first day of execution
\* month M to the last day of month M+2 gives a non-zero label, and one in
\* month M+2 (the only one in the window) gives 1/3.
C4_WindowComplete ==
    PanelReturned =>
        \A i \in 1..Len(final_df) :
            LET row == final_df[i]
                inWindow == {m \in TerminationsOf(row.emp_id) :
                                MonthOffset(m.effective_date, row.execution_date) \in {0, 1, 2}}
            IN  /\ inWindow # {} => row.termination_value # 0
                /\ (inWindow # {} /\ \A m \in inWindow :
                        MonthOffset(m.effective_date, row.execution_date) = 2)
                       => row.termination_value = 1

\* C5 (as claimed): an employee whose (first) termination falls inside
\* execution month M has a panel row at the month-end of M with
\* termination_value 1.0.
C5_LabelOneReached ==
    PanelReturned =>
        \A m \in Range(emp_movement_df) :
            LET d == MonthEnd(MonthOf(m.effective_date))
            IN  (/\ m.movement_type \in TerminationTypes
                 /\ d \in Range(ExecutionDates(emp_df, today))
                 /\ ActiveAt(m.employee_id, ReplaceDay1(m.effective_date) - 1))
                => \E i \in 1..Len(final_df) :
                       /\ final_df[i].emp_id = m.employee_id
                       /\ final_df[i].execution_date = d
                       /\ final_df[i].termination_value = LabelDenominator

\* C6 (as claimed): the panel has a row for every employee at every month-end
\* from the employee's hire month through the current month at which the
\* employee is active.
C6_PanelCoverage ==
    PanelReturned =>
        \A e \in Emps : \A mth \in 0..MonthOf(today) :
            ActiveAt(e, MonthEnd(mth)) =>
                \E i \in 1..Len(final_df) :
                    /\ final_df[i].emp_id = e
                    /\ final_df[i].execution_date = MonthEnd(mth)

-----------------------------------------------------------------------------
(* Properties of the cohort z-score *)

\* the rows of z_df in the cohort of row i
CohortOf(i) == {j \in 1..Len(z_df) : z_df[j].group = z_df[i].group}

\* C7 (as claimed): the z-score is exactly 0 for every row whose cohort key is
\* missing, whose cohort has a single member, or whose cohort's values all
\* coincide.
C7_DegenerateCohortIsZero ==
    z_pc = "returned" =>
        \A i \in 1..Len(z_df) :
            (\/ z_df[i].group = NaN
             \/ Cardinality(CohortOf(i)) = 1
             \/ \A j \in CohortOf(i) : z_df[j].value = z_df[i].value)
            => z_out[i] = ZeroScore

-----------------------------------------------------------------------------
(* Properties of the threshold search *)

Grid == {GridAt(k) : k \in 1..GridLen}

\* the thresholds of the grid whose recall meets the floor
MeetsFloor(t) == RatLeq(recall_threshold, MetricsAt(y_prob, y_test, t).recall)

Feasible == {t \in Grid : MeetsFloor(t)}

RatLarger(a, b) == IF RatLess(a, b) THEN b ELSE a

RECURSIVE TopMacroF1(_, _)
\* the largest macro-F1 over the feasible thresholds among GridAt(lo..hi)
TopMacroF1(lo, hi) ==
    IF lo = hi
    THEN IF MeetsFloor(GridAt(lo)) THEN MetricsAt(y_prob, y_test, GridAt(lo)).macro_f1
         ELSE NegInf
    ELSE RatLarger(TopMacroF1(lo, (lo + hi) \div 2), TopMacroF1((lo + hi) \div 2 + 1, hi))

\* the feasible thresholds with the highest macro-F1
BestThresholds ==
    LET top == TopMacroF1(1, GridLen)
    IN  {t \in Feasible : ~RatLess(MetricsAt(y_prob, y_test, t).macro_f1, top)}

\* C10: when some threshold of the grid 0.001..0.499 meets the recall floor,
\* the returned threshold is the smallest of those with the highest macro-F1
\* among the thresholds meeting the floor, returned with its own metrics.
C10_FirstBestThreshold ==
    (thr_pc = "returned" /\ Feasible # {}) =>
        /\ GridLen = 499
        /\ optimal_threshold \in BestThresholds
        /\ \A t \in BestThresholds : optimal_threshold <= t
        /\ best_metrics = <<MetricsAt(y_prob, y_test, optimal_threshold)>>

\* C10 witness: several thresholds tie for the highest macro-F1, other feasible
\* thresholds score lower, some threshold misses the recall floor, and the
\* first threshold of the grid is not the one returned.
C10_Witness ==
    /\ thr_pc = "returned"
    /\ Cardinality(BestThresholds) > 1
    /\ BestThresholds # Feasible
    /\ Feasible # Grid
    /\ optimal_threshold > GridStart

\* C11: when no threshold of the grid meets the recall floor, nothing is
\* returned: find_optimal_threshold (and fit_model, which hands its result on)
\* returns only a threshold of the grid with its metrics, never the initial
\* threshold 0 with no metrics.
C11_NoDegenerateThreshold ==
    thr_pc \in {"returned", "finetuned"} =>
        /\ Feasible # {}
        /\ thr_pc = "returned" => (optimal_threshold \in Grid /\ best_metrics # <<>>)
        /\ thr_pc = "finetuned" => best_model # "None"

-----------------------------------------------------------------------------
(* Properties of the walk-forward split *)

SplitDone == pc \in {"trained", "failed"}

\* C8: training and testing dates are disjoint, every training date is earlier
\* than every testing date (also as persisted in model_config), and a row is in
\* train_df or test_df exactly by its execution_date.
C8_SplitOrdered ==
    SplitDone =>
        /\ Range(train_execution_dates) \cap Range(test_execution_dates) = {}
        /\ \A a \in Range(train_execution_dates), b \in Range(test_execution_dates) : a < b
        /\ \A a \in Range(model_config.training_period),
              b \in Range(model_config.testing_period) : StrLess(a, b)
        /\ \A i \in 1..Len(final_df) :
               /\ final_df[i] \in Range(train_df)
                      <=> final_df[i].execution_date \in Range(train_execution_dates)
               /\ final_df[i] \in Range(test_df)
                      <=> final_df[i].execution_date \in Range(test_execution_dates)
        /\ Range(train_df) \cup Range(test_df) \subseteq Range(final_df)

\* C8 witness: a trained run with training rows and testing rows.
C8_Witness ==
    /\ pc = "trained"
    /\ train_df # <<>>
    /\ test_df # <<>>
    /\ Len(model_config.training_period) > 1

NumDates == Len(AvailableExecutionDates(final_df))

\* C9 (as claimed): with N distinct execution dates, training uses dates
\* 1..N-4 and testing the single date N-3.
C9_TrainsToNMinus4 ==
    (SplitDone /\ NumDates >= 5) =>
        /\ train_execution_dates = SubSeq(AvailableExecutionDates(final_df), 1, NumDates - 4)
        /\ test_execution_dates = <<AvailableExecutionDates(final_df)[NumDates - 3]>>

\* C9 (amended): training uses dates 1..N-7 (none when N <= 7) and testing the
\* single date N-3 (none when N <= 3).
C9_TrainsToNMinus7 ==
    SplitDone =>
        /\ train_execution_dates = SubSeq(AvailableExecutionDates(final_df), 1, NumDates - 7)
        /\ NumDates >= 4 =>
               test_execution_dates = <<AvailableExecutionDates(final_df)[NumDates - 3]>>
        /\ NumDates <= 3 => test_execution_dates = <<>>

\* C9 witness: at least nine dates, so that training has two and testing one.
C9_Witness ==
    /\ SplitDone
    /\ NumDates >= 9
    /\ Len(train_execution_dates) >= 2
    /\ Len(test_execution_dates) = 1

-----------------------------------------------------------------------------
(* Properties of predict_result *)

\* the rows predict_result predicts for
PredSnapshot == LatestSnapshot(pred_df)

FeatureSet == {loaded_config.features[i] : i \in 1..Len(loaded_config.features)}

\* the frame with every column that is not a listed feature blanked
WithoutExtraColumns ==
    [i \in 1..Len(pred_df) |->
        [pred_df[i] EXCEPT !.values =
            [c \in FeatureColumns |-> IF c \in FeatureSet THEN pred_df[i].values[c] ELSE 0]]]

\* C12: a snapshot lacking a column of model_config['features'] makes
\* predict_result raise InferenceSchemaMismatch with no predictions at all;
\* columns outside the feature list do not change the predictions.
C12_MissingColumnIsSchemaMismatch ==
    pred_pc # "call" =>
        /\ ~(FeatureSet \subseteq pred_columns) =>
               /\ pred_pc = "raised"
               /\ pred_error = "InferenceSchemaMismatch"
               /\ result_df = <<>>
        /\ pred_pc = "returned" =>
               result_df = PredictResult(WithoutExtraColumns, pred_columns, loaded_config,
                                         explainer_fails).result_df

\* the raw model output for row i of the snapshot
RawOutput(i) == ModelPredict(SelectFeatures(PredSnapshot[i], loaded_config.features))

FailedExplanations == {i \in 1..Len(PredSnapshot) : PredSnapshot[i].emp_id \in explainer_fails}

\* C18: an explainer failure on one employee does not abort the batch: the
\* call returns, every other employee of the snapshot has its explanation,
\* the failed one has none, and the number of records missing is the number
\* of failures.
C18_ExplainerFailureIsSkipped ==
    (pred_pc # "call" /\ FeatureSet \subseteq pred_columns /\ FailedExplanations # {}) =>
        /\ pred_pc = "returned"
        /\ {model_interpretation[k].emp_id : k \in 1..Len(model_interpretation)}
               = {PredSnapshot[i].emp_id : i \in 1..Len(PredSnapshot)} \ explainer_fails
        /\ Len(PredSnapshot) - Len(model_interpretation) = Cardinality(FailedExplanations)

-----------------------------------------------------------------------------
(* Properties of generate_termination_analysis *)

\* the SHAP row of employee e
ShapOf(e) == (CHOOSE row \in Range(ta_interpretation) : row.emp_id = e).values

\* the sum over the employees in members of their contribution of feature i
RawSum(members, i) ==
    LET es == SortedSeq(members)
    IN  SumSeq([k \in 1..Len(es) |-> ShapOf(es[k])[i]])

\* the sum of |RawSum| over the features at the positions of the set kept
AbsTotal(members, kept) ==
    LET ks == SortedSeq(kept)
    IN  SumSeq([k \in 1..Len(ks) |-> Abs(RawSum(members, ks[k]))])

\* the features whose summed contribution is above the mean magnitude
AboveMean(members) ==
    {i \in 1..Len(ta_features) :
        Abs(RawSum(members, i)) * Len(ta_features) > AbsTotal(members, 1..Len(ta_features))}

PctSum(factors) == SumSeq([k \in 1..Len(factors) |-> factors[k].impact_percentage])

Descending(factors) ==
    \A k \in 1..(Len(factors) - 1) :
        factors[k].impact_percentage >= factors[k + 1].impact_percentage

\* the percentages add up to 100, each off by at most half a hundredth
SumsTo100(factors) == 2 * Abs(PctSum(factors) - PctScale) <= Len(factors)

\* C14: in every entry of reason_by_employee the impact factors are exactly
\* the features whose absolute contribution is above the employee's mean
\* absolute contribution, in descending impact_percentage, and the
\* percentages sum to 100 within rounding, whatever the contributions are.
C14_EmployeeFactorsSumTo100 ==
    ta_pc = "returned" =>
        \A k \in 1..Len(json_result.reason_by_employee) :
            LET entry == json_result.reason_by_employee[k]
                factors == entry.impact_factors
            IN  /\ {factors[n].feature : n \in 1..Len(factors)}
                       = {ta_features[i] : i \in AboveMean({entry.employee_id})}
                /\ Len(factors) = Cardinality(AboveMean({entry.employee_id}))
                /\ Descending(factors)
                /\ SumsTo100(factors)

\* the features of the top drivers, in their order, without repetitions
TopFeatures ==
    LET top == json_result.top_quitting_reason
    IN  RowsAt([k \in 1..Len(top) |-> top[k].feature],
               {k \in 1..Len(top) : \A m \in 1..(k - 1) : top[m].feature # top[k].feature})

PositionOf(feature) == CHOOSE i \in 1..Len(ta_features) : ta_features[i] = feature

\* the magnitude of the population sum of a feature's contributions
Magnitude(feature) == Abs(RawSum(1..NumTaEmps, PositionOf(feature)))

\* the row of the top drivers for a feature
TopRow(feature) ==
    CHOOSE row \in Range(json_result.top_quitting_reason) : row.feature = feature

\* C15: the top drivers are the 5 features (all of them when there are fewer)
\* of largest magnitude of averaged contribution, in descending magnitude,
\* with non-negative percentages that sum to 100 within rounding.
C15_TopDriversByMagnitude ==
    ta_pc = "returned" =>
        /\ Len(TopFeatures) = Min2(5, Len(ta_features))
        /\ \A f \in Range(TopFeatures) :
               \A g \in Range(ta_features) \ Range(TopFeatures) : Magnitude(f) >= Magnitude(g)
        /\ \A k \in 1..(Len(TopFeatures) - 1) :
               Magnitude(TopFeatures[k]) >= Magnitude(TopFeatures[k + 1])
        /\ \A f \in Range(TopFeatures) :
               TopRow(f).impact_percentage.finite /\ TopRow(f).impact_percentage.pct >= 0
        /\ 2 * Abs(SumSeq([k \in 1..Len(TopFeatures) |->
                              TopRow(TopFeatures[k]).impact_percentage.pct]) - PctScale)
               <= Len(TopFeatures)

\* the employees of model_interpretation whose cohort column has this value
MembersOf(column, name) == {m.emp_id : m \in {m \in Range(ta_metadata) : m[column] = name}}

\* the entries of a cohort section are those of the raw contributions summed
\* over all members of each cohort, then filtered and renormalised
FromRawSums(section, column) ==
    /\ {section[k].cohort : k \in 1..Len(section)} = {m[column] : m \in Range(ta_metadata)}
    /\ Len(section) = Cardinality({m[column] : m \in Range(ta_metadata)})
    /\ \A k \in 1..Len(section) :
           LET members == MembersOf(column, section[k].cohort)
               factors == section[k].impact_factors
           IN  /\ Len(factors) = Cardinality(AboveMean(members))
               /\ Descending(factors)
               /\ \A i \in AboveMean(members) :
                      \E n \in 1..Len(factors) :
                          /\ factors[n].feature = ta_features[i]
                          /\ factors[n].impact_percentage
                                 = RoundHalfEven(Abs(RawSum(members, i)) * PctScale,
                                                 AbsTotal(members, AboveMean(members)))

GenAIFailed ==
    \/ genai_response.kind \in {"raises", "unparseable", "no_key"}
    \/ genai_response.kind = "list" /\ genai_response.recommendation = <<>>

\* C17: when the text-generation call raises or answers with a malformed or
\* empty response, the report is still returned and no top driver has a
\* recommendation text.
C17_GenAIFailureGivesNoText ==
    (ta_pc # "call" /\ GenAIFailed) =>
        /\ ta_pc = "returned"
        /\ \A row \in Range(json_result.top_quitting_reason) :
               row.recommendation_action \in {"", "NaN"}

-----------------------------------------------------------------------------
(* Properties of a pipeline run *)

\* the errors that are fatal to the run: panel construction and training
FatalStages == {"feature_engineering", "train_model"}

\* the model artifact, the prediction table and the report
PublishedFiles ==
    {"model.pkl", "model_config.json", "model_result.parquet", "termination_result.json"}

\* main has gone past save_model in this run
SaveModelReached ==
    \/ pc \in {"saved", "predicted", "results_saved", "completed"}
    \/ raised \in {"save_model", "predict_result", "generate_termination_analysis"}

\* C19: when feature_engineering or train_model raises, the run ends with the
\* error re-raised and has written no model file, no prediction table and no
\* report, and the step that raises leaves those files as they were;
\* save_model is reached, and the model files are written, only in a run
\* whose train_model has returned a model and its model_config.
C19_FatalErrorsPersistNothing ==
    /\ [](/\ raised \in FatalStages => (pc = "failed" /\ written \cap PublishedFiles = {})
          /\ (SaveModelReached \/ written \cap PublishedFiles # {}) =>
                 /\ raised \notin FatalStages
                 /\ train_df # <<>>
                 /\ model_config # NoConfig)
    /\ [][raised' \in FatalStages =>
              UNCHANGED <<model_pkl, model_config_json, model_result_parquet,
                          model_interpretation_pkl, termination_result_json>>]_vars

\* C19 witness: a run that built and wrote the panel and then failed in
\* train_model.
C19_Witness ==
    /\ pc = "failed"
    /\ raised = "train_model"
    /\ written = {"feature_engineered_data.csv"}
    /\ final_df # <<>>

\* C20: once save_model has written model.pkl and model_config.json, no step
\* of this run or of a later run changes the content of either file.
C20_ModelFilesImmutable ==
    [][(model_pkl # NoFile /\ model_config_json # NoFile) =>
           (model_pkl' = model_pkl /\ model_config_json' = model_config_json)]_vars

-----------------------------------------------------------------------------
(* Properties of the model record *)

\* C21: a call of generate_termination_analysis leaves the 'features' list of
\* the model_config it is given as it was, in content and in order (and
\* predict_result leaves the model_config it loads alone).
C21_ModelConfigReadOnly ==
    [][(ta_pc = "call" /\ ta_pc' # "call") => ta_features' = ta_features]_vars

\* the name under which the report shows a feature of the model
ReportName(feature) ==
    IF feature = "department_name" THEN "department_name_shap" ELSE feature

\* C28: in the report of a call, the impact factors of every employee carry
\* the names of exactly those features of model_config['features'] (in the
\* order predict_result computed the explanation in) at whose position the
\* employee's SHAP value is above the employee's mean absolute value.
C28_ContributionsKeepTheirFeature ==
    [][(ta_pc = "call" /\ ta_pc' = "returned") =>
           \A k \in 1..Len(json_result'.reason_by_employee) :
               LET entry == json_result'.reason_by_employee[k]
                   factors == entry.impact_factors
               IN  {factors[n].feature : n \in 1..Len(factors)}
                       = {ReportName(ta_features[i]) : i \in AboveMean({entry.employee_id})}]_vars

-----------------------------------------------------------------------------
(* Properties of the retention_api jobs *)

JobStatus(job_id) == retention_jobs[job_id].status

\* C22: there is never a state in which two jobs have status "running".
C22_AtMostOneRunning ==
    Cardinality({j \in DOMAIN retention_jobs : JobStatus(j) = "running"}) <= 1

\* C23: a job record with status "failed" has a non-empty error that names
\* the step of the pipeline that failed, and the status response for the job
\* carries that error.
C23_FailedJobNamesStage ==
    \A j \in DOMAIN retention_jobs :
        JobStatus(j) = "failed" =>
            /\ retention_jobs[j].error # NoValue
            /\ failed_stage[j] # "" => failed_stage[j] \in Range(retention_jobs[j].error)
            /\ GetRetentionJobStatus(j).error = retention_jobs[j].error

StatusMoves == {<<"queued", "running">>, <<"running", "completed">>, <<"running", "failed">>}

\* C24: a job is created with status "queued"; its status changes only from
\* queued to running and from running to completed or failed, so a completed
\* or failed job keeps its status; it is completed only after an exit with
\* code 0, and a thread that has ended after another exit code, or after an
\* exception, has left it failed.
C24_StatusMovesForward ==
    /\ [][\A j \in TaskIds :
              /\ (~HasJob(j) /\ HasJob(j)') => JobStatus(j)' = "queued"
              /\ HasJob(j) =>
                     /\ HasJob(j)'
                     /\ JobStatus(j)' # JobStatus(j) =>
                            <<JobStatus(j), JobStatus(j)'>> \in StatusMoves]_vars
    /\ [](\A j \in DOMAIN retention_jobs :
              /\ JobStatus(j) = "completed" => returncode[j] = "0"
              /\ thread_pc[j] = <<"done">> =>
                     JobStatus(j) = IF returncode[j] = "0" THEN "completed" ELSE "failed")

\* C24 witness: a completed job next to one that failed with exit code 1.
C24_Witness ==
    \E j, k \in DOMAIN retention_jobs :
        /\ JobStatus(j) = "completed"
        /\ JobStatus(k) = "failed"
        /\ returncode[k] = "1"
        /\ thread_pc[k] = <<"done">>

\* C30: every job that was accepted is eventually completed or failed, when
\* its thread is scheduled and the subprocess terminates.
C30_JobsEnd ==
    \A j \in TaskIds :
        HasJob(j) ~> (HasJob(j) /\ JobStatus(j) \in {"completed", "failed"})

\* C30 witness: a job whose thread raised before the subprocess ran and that
\* ended failed.
C30_Witness ==
    \E j \in DOMAIN retention_jobs :
        /\ thread_pc[j] = <<"done">>
        /\ returncode[j] = ""
        /\ JobStatus(j) = "failed"
        /\ retention_jobs[j].error # NoValue

-----------------------------------------------------------------------------
(* Properties of the training window *)

\* C25: in the training frame of a trained run, every row of the first 80%
\* (tune-train) has an execution_date no later than that of every row of the
\* last 20% (tune-validation), and the two parts are the frame, in its order.
C25_TuneSplitKeepsTimeOrder ==
    pc = "trained" =>
        /\ \A a \in Range(TuneTrain(train_df)), b \in Range(TuneVal(train_df)) :
               a.execution_date <= b.execution_date
        /\ TuneTrain(train_df) \o TuneVal(train_df) = train_df
        /\ 10 * Len(TuneTrain(train_df)) <= 8 * Len(train_df)
        /\ 10 * (Len(TuneTrain(train_df)) + 1) > 8 * Len(train_df)

\* C25 witness: a training frame of two months whose validation part is not
\* empty and whose tune-train part has rows of both months.
C25_Witness ==
    /\ pc = "trained"
    /\ TuneVal(train_df) # <<>>
    /\ Cardinality({r.execution_date : r \in Range(TuneTrain(train_df))}) >= 2

\* the last execution date of the panel
LastExecutionDate == AvailableExecutionDates(final_df)[NumDates]

\* C29: the label window of every training row ends before the execution
\* date of the test month, and the label window of the test month ends no
\* later than the last execution date of the panel.
C29_NoLabelLeakage ==
    SplitDone =>
        /\ \A r \in Range(train_df), t \in Range(test_execution_dates) :
               TimeWindowEnd(r.execution_date) < t
        /\ \A t \in Range(test_execution_dates) : TimeWindowEnd(t) <= LastExecutionDate

\* C29 witness: a trained run with training rows of two months and a test
\* month with rows, where the label window of the last training month ends
\* two months before the test month.
C29_Witness ==
    /\ pc = "trained"
    /\ Len(train_execution_dates) >= 2
    /\ test_df # <<>>
    /\ \E r \in Range(train_df), t \in Range(test_execution_dates) :
           MonthOf(TimeWindowEnd(r.execution_date)) + 2 = MonthOf(t)

-----------------------------------------------------------------------------
(* Properties of the Redis jobs *)

\* C26: once cancel_job has written 'cancelled' to a job, the status stays
\* 'cancelled': no worker takes the job from job_queue, and no worker writes
\* 'processing', 'completed' or 'failed' over it.
C26_CancelledStaysCancelled ==
    [][\A j \in JobIds :
          (RedisHasJob(j) /\ RedisStatus(j) = "cancelled")
              => /\ RedisStatus(j)' = "cancelled"
                 /\ (worker_job_id' = j => worker_job_id = j)]_vars

\* C27: a job whose status is 'completed' or 'failed' keeps that status,
\* whatever the interleaving of cancel_job with the worker and whatever
\* happens in later iterations of the worker loop.
C27_FinishedStatusIsFinal ==
    [][\A j \in JobIds :
          (RedisHasJob(j) /\ RedisStatus(j) \in {"completed", "failed"})
              => RedisStatus(j)' = RedisStatus(j)]_vars

====
